---- MODULE Spec2Model ----
(***************************************************************************)
(* A model of the H3 index algebra of h3rs (src/src/c/h3Index.c and the    *)
(* macros of src/src/h/h3Index.h): the 64-bit index word, the parent /     *)
(* child hierarchy, h3ToChildren, compact and uncompact.                   *)
(*                                                                         *)
(* A 64-bit H3Index word is kept as the record of its bit fields           *)
(*   hi (1 bit) | mode (4) | rsv (3) | res (4) | bc (7) | dig (15 x 3)     *)
(* which is a bijection with the 64-bit words, so that equality of words   *)
(* is equality of records.  Arithmetic on whole words (the modulus hash of *)
(* compact) is computed field by field.                                    *)
(***************************************************************************)
EXTENDS Integers, Sequences, FiniteSets, TLC

VARIABLES
    pc,                 \* position of the running operation
    arg,                \* the inputs the operation was called with
    out,                \* what the operation returned / wrote
    h3Set,              \* compact: the input array (0-based function)
    remainingHexes,     \* compact: working copy of the cells still to compact
    hashSetArray,       \* compact: open-addressing table of parents
    compactableHexes,   \* compact: parents found complete in this round
    compactedSet,       \* compact: the caller's output array
    compactedSetOffset, \* compact: first free slot of compactedSet
    numRemainingHexes,  \* compact: number of cells in remainingHexes
    ret                 \* compact: return code, once pc is "done"

vars == <<pc, arg, out, h3Set, remainingHexes, hashSetArray, compactableHexes,
          compactedSet, compactedSetOffset, numRemainingHexes, ret>>

-----------------------------------------------------------------------------
(* Program constants *)

MAX_H3_RES == 15
NUM_BASE_CELLS == 122
NUM_DIGITS == 7
CENTER_DIGIT == 0
K_AXES_DIGIT == 1
H3_DIGIT_MASK == 7
H3_HEXAGON_MODE == 1

COMPACT_SUCCESS == 0
COMPACT_LOOP_EXCEEDED == -1
COMPACT_DUPLICATE == -2

(* Bounds of the model *)

MaxDepth == 2       \* finest child resolution expanded, relative to the parent
MaxSetLen == 2      \* longest compacted set given to uncompact
MaxOut == 15        \* largest maxHexes given to uncompact
MaxPartial == 1     \* cells kept in / removed from a sibling group (compact)
MaxDups == 1        \* extra copies of a cell appended to compact's input

-----------------------------------------------------------------------------
(* The index word *)

Digits == 1..MAX_H3_RES

H3_NULL ==
    [hi |-> 0, mode |-> 0, rsv |-> 0, res |-> 0, bc |-> 0,
     dig |-> [r \in Digits |-> 0]]

\* an index with mode 0, res 0, base cell 0 and all digits 7
H3_INIT ==
    [hi |-> 0, mode |-> 0, rsv |-> 0, res |-> 0, bc |-> 0,
     dig |-> [r \in Digits |-> H3_DIGIT_MASK]]

H3_GET_RESOLUTION(h) == h.res
H3_GET_BASE_CELL(h) == h.bc
H3_GET_MODE(h) == h.mode

\* the field is 4 bits wide
H3_SET_RESOLUTION(h, v) == [h EXCEPT !.res = v % 16]
H3_SET_MODE(h, v) == [h EXCEPT !.mode = v % 16]
H3_SET_BASE_CELL(h, v) == [h EXCEPT !.bc = v % 128]

H3_GET_INDEX_DIGIT(h, r) == h.dig[r]

\* clears the 3 bits at offset (MAX_H3_RES - r) * 3 and ors the digit in; for
\* r = 0 that offset is the low 3 bits of the base cell field
H3_SET_INDEX_DIGIT(h, r, digit) ==
    IF r \in Digits THEN [h EXCEPT !.dig[r] = digit % 8]
    ELSE [h EXCEPT !.bc = (h.bc \div 8) * 8 + (digit % 8)]

H3_GET_RESERVED_BITS(h) == h.rsv

\* h & H3_RESERVED_MASK_NEGATIVE
ClearReserved(h) == [h EXCEPT !.rsv = 0]

\* mutant: the reserved field is left as it was
H3_SET_RESERVED_BITS_Nothing(h, v) == h

\* (h & H3_RESERVED_MASK_NEGATIVE) | ((uint64_t)v << H3_RESERVED_OFFSET), for
\* v in 0..15: the bit of v above the field is or-ed into the mode field
H3_SET_RESERVED_BITS(h, v) ==
    [h EXCEPT !.rsv = v % 8,
              !.mode = IF (v \div 8) % 2 = 1 /\ h.mode % 2 = 0
                       THEN h.mode + 1 ELSE h.mode]

-----------------------------------------------------------------------------
(* Base cells and the hierarchy *)

PentagonBaseCells == {4, 14, 24, 38, 49, 58, 63, 72, 83, 97, 107, 117}

_isBaseCellPentagon(bc) == bc \in PentagonBaseCells

RECURSIVE LeadingFrom(_, _)
LeadingFrom(h, r) ==
    IF r > H3_GET_RESOLUTION(h) THEN CENTER_DIGIT
    ELSE IF H3_GET_INDEX_DIGIT(h, r) # 0 THEN H3_GET_INDEX_DIGIT(h, r)
    ELSE LeadingFrom(h, r + 1)

_h3LeadingNonZeroDigit(h) == LeadingFrom(h, 1)

h3IsPentagon(h) ==
    _isBaseCellPentagon(H3_GET_BASE_CELL(h)) /\ _h3LeadingNonZeroDigit(h) = 0

_isValidChildRes(parentRes, childRes) ==
    ~(childRes < parentRes \/ childRes > MAX_H3_RES)

RECURSIVE _ipow(_, _)
_ipow(base, exp) == IF exp <= 0 THEN 1 ELSE base * _ipow(base, exp - 1)

maxH3ToChildrenSize(h, childRes) ==
    IF ~_isValidChildRes(H3_GET_RESOLUTION(h), childRes) THEN 0
    ELSE _ipow(7, childRes - H3_GET_RESOLUTION(h))

h3ToParent(h, parentRes) ==
    LET childRes == H3_GET_RESOLUTION(h) IN
    IF parentRes > childRes THEN H3_NULL
    ELSE IF parentRes = childRes THEN h
    ELSE IF parentRes < 0 THEN H3_NULL
    ELSE [h EXCEPT !.res = parentRes,
                   !.dig = [r \in Digits |->
                              IF r > parentRes /\ r <= childRes
                              THEN H3_DIGIT_MASK ELSE h.dig[r]]]

setH3Index(res, baseCell, initDigit) ==
    [hi |-> 0, mode |-> H3_HEXAGON_MODE, rsv |-> 0, res |-> res,
     bc |-> baseCell,
     dig |-> [r \in Digits |-> IF r <= res THEN initDigit ELSE H3_DIGIT_MASK]]

h3IsValid(h) ==
    /\ h.hi = 0
    /\ H3_GET_MODE(h) = H3_HEXAGON_MODE
    /\ H3_GET_RESERVED_BITS(h) = 0
    /\ H3_GET_BASE_CELL(h) \in 0..(NUM_BASE_CELLS - 1)
    /\ H3_GET_RESOLUTION(h) \in 0..MAX_H3_RES
    /\ \A r \in Digits :
         IF r <= H3_GET_RESOLUTION(h) THEN h.dig[r] \in 0..6
         ELSE h.dig[r] = H3_DIGIT_MASK
    /\ (_isBaseCellPentagon(H3_GET_BASE_CELL(h))
          => _h3LeadingNonZeroDigit(h) # K_AXES_DIGIT)

-----------------------------------------------------------------------------
(* Memory: an array with the indexes the program wrote to.  A write outside *)
(* the array is recorded in "written" and leaves the cells alone.           *)

NewBuf(n, fill) == [mem |-> [i \in 0..(n - 1) |-> fill], written |-> {}]

Write(buf, i, v) ==
    [mem |-> IF i \in DOMAIN buf.mem THEN [buf.mem EXCEPT ![i] = v] ELSE buf.mem,
     written |-> buf.written \cup {i}]

-----------------------------------------------------------------------------
(* makeDirectChild and h3ToChildren *)

\* mutant: the digit is written at the parent's resolution
makeDirectChild_ParentDigit(h, cellNumber) ==
    LET childRes == H3_GET_RESOLUTION(h) + 1
        childH == H3_SET_RESOLUTION(h, childRes)
    IN H3_SET_INDEX_DIGIT(childH, childRes - 1, cellNumber)

makeDirectChild(h, cellNumber) ==
    LET childRes == H3_GET_RESOLUTION(h) + 1
        childH == H3_SET_RESOLUTION(h, childRes)
    IN H3_SET_INDEX_DIGIT(childH, childRes, cellNumber)

\* mutant: the skipped subtree is left as it was
FillNull_Nothing(children, nextChild) == <<>>

\* while (children < nextChild) { *children = H3_NULL; children++; }
\* as the sequence of writes <<index, value>> it makes
FillNull(children, nextChild) ==
    [k \in 1..(IF nextChild > children THEN nextChild - children ELSE 0) |->
        <<children + k - 1, H3_NULL>>]

RECURSIVE h3ToChildrenWrites(_, _, _)

\* mutant: the output pointer advances by one cell per iteration
ChildrenLoopBody_UnitStep(h, childRes, children, bufferChildStep, isAPentagon, i) ==
    IF isAPentagon /\ i = K_AXES_DIGIT
    THEN FillNull(children + i, children + i + bufferChildStep)
    ELSE h3ToChildrenWrites(makeDirectChild(h, i), childRes, children + i)

\* mutant: the K subtree of a pentagon is expanded like the others
ChildrenLoopBody_NoPentagon(h, childRes, children, bufferChildStep, isAPentagon, i) ==
    h3ToChildrenWrites(makeDirectChild(h, i), childRes,
                       children + i * bufferChildStep)

\* iteration i of the for loop of h3ToChildren; the output pointer has been
\* advanced by bufferChildStep in each of the i iterations before it
ChildrenLoopBody(h, childRes, children, bufferChildStep, isAPentagon, i) ==
    IF isAPentagon /\ i = K_AXES_DIGIT
    THEN FillNull(children + i * bufferChildStep,
                  children + i * bufferChildStep + bufferChildStep)
    ELSE h3ToChildrenWrites(makeDirectChild(h, i), childRes,
                            children + i * bufferChildStep)

\* the writes of h3ToChildren(h, childRes, children), in program order, as
\* <<index, value>> pairs; children is the output pointer as an index
h3ToChildrenWrites(h, childRes, children) ==
    LET parentRes == H3_GET_RESOLUTION(h) IN
    IF ~_isValidChildRes(parentRes, childRes) THEN <<>>
    ELSE IF parentRes = childRes THEN << <<children, h>> >>
    ELSE LET bufferSize == maxH3ToChildrenSize(h, childRes)
             bufferChildStep == bufferSize \div 7
             isAPentagon == h3IsPentagon(h)
             W(i) == ChildrenLoopBody(h, childRes, children, bufferChildStep,
                                      isAPentagon, i)
         IN W(0) \o W(1) \o W(2) \o W(3) \o W(4) \o W(5) \o W(6)

\* a sequence of writes applied to a buffer: each cell ends with the value of
\* the last write to it
ApplyWrites(buf, W) ==
    LET idx == { W[k][1] : k \in DOMAIN W }
        last(i) == CHOOSE k \in DOMAIN W :
                      /\ W[k][1] = i
                      /\ \A m \in DOMAIN W : W[m][1] = i => m <= k
    IN [mem |-> [i \in DOMAIN buf.mem |->
                    IF i \in idx THEN W[last(i)][2] ELSE buf.mem[i]],
        written |-> buf.written \cup idx]

h3ToChildren(h, childRes, buf, children) ==
    ApplyWrites(buf, h3ToChildrenWrites(h, childRes, children))

-----------------------------------------------------------------------------
(* Inputs: valid cells on a pentagon and two hexagon base cells, at coarse  *)
(* and fine resolutions, whose digits alternate between two values.         *)

SampleBaseCells == {4, 20, 121}
SampleResolutions == {0, 1, 2, 3, 12, 13, 14, 15}

PatternCell(bc, res, a, b) ==
    [hi |-> 0, mode |-> H3_HEXAGON_MODE, rsv |-> 0, res |-> res, bc |-> bc,
     dig |-> [r \in Digits |->
                IF r > res THEN H3_DIGIT_MASK
                ELSE IF r % 2 = 1 THEN a ELSE b]]

SampleCells ==
    { c \in { PatternCell(bc, res, a, b) :
                bc \in SampleBaseCells, res \in SampleResolutions,
                a \in 0..6, b \in 0..6 } : h3IsValid(c) }

\* what an output buffer may hold before the call
JunkCell == setH3Index(5, 20, 3)
Fills == {H3_NULL, JunkCell}

NoArg == [op |-> "none"]
NoBuf == NewBuf(0, H3_NULL)
EmptyArray == [i \in {} |-> H3_NULL]

CompactIdle ==
    /\ h3Set = EmptyArray
    /\ remainingHexes = EmptyArray
    /\ hashSetArray = EmptyArray
    /\ compactableHexes = NoBuf
    /\ compactedSet = NoBuf
    /\ compactedSetOffset = 0
    /\ numRemainingHexes = 0
    /\ ret = 0

CompactVars ==
    <<h3Set, remainingHexes, hashSetArray, compactableHexes, compactedSet,
      compactedSetOffset, numRemainingHexes, ret>>

-----------------------------------------------------------------------------
(* Specification of the hierarchy functions: a call of h3ToChildren or of   *)
(* makeDirectChild on a drawn input.                                        *)

ChildResolutions(h) ==
    { c \in (H3_GET_RESOLUTION(h) - 1)..(H3_GET_RESOLUTION(h) + MaxDepth) :
        c >= 0 /\ c <= MAX_H3_RES + 1 }

InitChildren ==
    /\ pc = "call"
    /\ \/ \E h \in SampleCells : \E c \in ChildResolutions(h) : \E f \in Fills :
            arg = [op |-> "h3ToChildren", h |-> h, childRes |-> c,
                   fill |-> f, digit |-> 0]
       \/ \E h \in SampleCells : \E d \in 0..6 :
            /\ H3_GET_RESOLUTION(h) < MAX_H3_RES
            /\ arg = [op |-> "makeDirectChild", h |-> h, childRes |-> 0,
                      fill |-> H3_NULL, digit |-> d]
    /\ out = NoBuf
    /\ CompactIdle

\* the caller allocates maxH3ToChildrenSize slots (one more than nothing, so
\* that a stray write has a slot to land in)
ChildrenBufSize(h, childRes) ==
    IF maxH3ToChildrenSize(h, childRes) = 0 THEN 1
    ELSE maxH3ToChildrenSize(h, childRes)

CallH3ToChildren ==
    /\ pc = "call"
    /\ arg.op = "h3ToChildren"
    /\ out' = h3ToChildren(arg.h, arg.childRes,
                           NewBuf(ChildrenBufSize(arg.h, arg.childRes), arg.fill),
                           0)
    /\ pc' = "done"
    /\ UNCHANGED <<arg, CompactVars>>

CallMakeDirectChild ==
    /\ pc = "call"
    /\ arg.op = "makeDirectChild"
    /\ out' = makeDirectChild(arg.h, arg.digit)
    /\ pc' = "done"
    /\ UNCHANGED <<arg, CompactVars>>

NextChildren == CallH3ToChildren \/ CallMakeDirectChild

SpecChildren == InitChildren /\ [][NextChildren]_vars

-----------------------------------------------------------------------------
(* uncompact and maxUncompactSize.  Arrays are functions on 0..n-1.         *)

\* mutant: the resolution test comes before the overflow test
UncompactBody_ResFirst(st, compacted, maxHexes, res, i) ==
    IF st.returned THEN st
    ELSE IF compacted[i] = H3_NULL THEN st
    ELSE LET currentRes == H3_GET_RESOLUTION(compacted[i]) IN
         IF ~_isValidChildRes(currentRes, res) THEN [st EXCEPT !.returned = TRUE, !.ret = -2]
         ELSE IF st.outOffset >= maxHexes THEN [st EXCEPT !.returned = TRUE, !.ret = -1]
         ELSE IF currentRes = res
         THEN [st EXCEPT !.h3Set = Write(st.h3Set, st.outOffset, compacted[i]),
                         !.outOffset = st.outOffset + 1]
         ELSE LET numHexesToGen == maxH3ToChildrenSize(compacted[i], res) IN
              IF st.outOffset + numHexesToGen > maxHexes
              THEN [st EXCEPT !.returned = TRUE, !.ret = -1]
              ELSE [st EXCEPT
                      !.h3Set = h3ToChildren(compacted[i], res, st.h3Set,
                                             st.outOffset),
                      !.outOffset = st.outOffset + numHexesToGen]

\* mutant: an expansion that ends exactly at maxHexes is refused
UncompactBody_OffByOne(st, compacted, maxHexes, res, i) ==
    IF st.returned THEN st
    ELSE IF compacted[i] = H3_NULL THEN st
    ELSE IF st.outOffset >= maxHexes THEN [st EXCEPT !.returned = TRUE, !.ret = -1]
    ELSE LET currentRes == H3_GET_RESOLUTION(compacted[i]) IN
         IF ~_isValidChildRes(currentRes, res) THEN [st EXCEPT !.returned = TRUE, !.ret = -2]
         ELSE IF currentRes = res
         THEN [st EXCEPT !.h3Set = Write(st.h3Set, st.outOffset, compacted[i]),
                         !.outOffset = st.outOffset + 1]
         ELSE LET numHexesToGen == maxH3ToChildrenSize(compacted[i], res) IN
              IF st.outOffset + numHexesToGen >= maxHexes
              THEN [st EXCEPT !.returned = TRUE, !.ret = -1]
              ELSE [st EXCEPT
                      !.h3Set = h3ToChildren(compacted[i], res, st.h3Set,
                                             st.outOffset),
                      !.outOffset = st.outOffset + numHexesToGen]

\* one iteration of the for loop of uncompact, on the state
\* [h3Set, outOffset, returned, ret]; ret is read once returned is TRUE
UncompactBody(st, compacted, maxHexes, res, i) ==
    IF st.returned THEN st
    ELSE IF compacted[i] = H3_NULL THEN st
    ELSE IF st.outOffset >= maxHexes THEN [st EXCEPT !.returned = TRUE, !.ret = -1]
    ELSE LET currentRes == H3_GET_RESOLUTION(compacted[i]) IN
         IF ~_isValidChildRes(currentRes, res) THEN [st EXCEPT !.returned = TRUE, !.ret = -2]
         ELSE IF currentRes = res
         THEN [st EXCEPT !.h3Set = Write(st.h3Set, st.outOffset, compacted[i]),
                         !.outOffset = st.outOffset + 1]
         ELSE LET numHexesToGen == maxH3ToChildrenSize(compacted[i], res) IN
              IF st.outOffset + numHexesToGen > maxHexes
              THEN [st EXCEPT !.returned = TRUE, !.ret = -1]
              ELSE [st EXCEPT
                      !.h3Set = h3ToChildren(compacted[i], res, st.h3Set,
                                             st.outOffset),
                      !.outOffset = st.outOffset + numHexesToGen]

RECURSIVE UncompactRange(_, _, _, _, _, _)
\* iterations lo..hi of the loop, in order
UncompactRange(st, compacted, maxHexes, res, lo, hi) ==
    IF lo > hi \/ st.returned THEN st
    ELSE IF lo = hi THEN UncompactBody(st, compacted, maxHexes, res, lo)
    ELSE UncompactRange(
            UncompactRange(st, compacted, maxHexes, res, lo, (lo + hi) \div 2),
            compacted, maxHexes, res, (lo + hi) \div 2 + 1, hi)

UncompactStart(h3SetBuf) ==
    [h3Set |-> h3SetBuf, outOffset |-> 0, returned |-> FALSE, ret |-> 0]

\* the loop ran to its end: return 0
UncompactReturn(st) ==
    IF st.returned THEN st ELSE [st EXCEPT !.returned = TRUE, !.ret = 0]

uncompact(compacted, numHexes, h3SetBuf, maxHexes, res) ==
    UncompactReturn(UncompactRange(UncompactStart(h3SetBuf), compacted,
                                   maxHexes, res, 0, numHexes - 1))

RECURSIVE SumSizes(_, _, _, _)
\* the sum the loop of maxUncompactSize accumulates over iterations lo..hi
SumSizes(compacted, res, lo, hi) ==
    IF lo > hi THEN 0
    ELSE IF lo = hi
    THEN IF compacted[lo] = H3_NULL THEN 0
         ELSE IF H3_GET_RESOLUTION(compacted[lo]) = res THEN 1
         ELSE maxH3ToChildrenSize(compacted[lo], res)
    ELSE SumSizes(compacted, res, lo, (lo + hi) \div 2)
         + SumSizes(compacted, res, (lo + hi) \div 2 + 1, hi)

maxUncompactSize(compacted, numHexes, res) ==
    IF \E i \in 0..(numHexes - 1) :
          /\ compacted[i] # H3_NULL
          /\ ~_isValidChildRes(H3_GET_RESOLUTION(compacted[i]), res)
    THEN -1
    ELSE SumSizes(compacted, res, 0, numHexes - 1)

-----------------------------------------------------------------------------
(* Specification of uncompact: one action per loop iteration, on a drawn    *)
(* compacted set, target resolution and output size.                        *)

UncompactPool ==
    { H3_NULL,
      setH3Index(1, 20, 2),
      PatternCell(20, 2, 2, 5),
      PatternCell(20, 3, 2, 5),
      setH3Index(1, 4, 0),
      setH3Index(2, 4, 0),
      PatternCell(121, 2, 6, 0) }

ArraysOver(S, n) == UNION { [0..(k - 1) -> S] : k \in 0..n }

InitUncompact ==
    /\ pc = "loop"
    /\ \E cs \in ArraysOver(UncompactPool, MaxSetLen) :
       \E res \in 0..3 : \E maxHexes \in 0..MaxOut :
          arg = [op |-> "uncompact", compactedSet |-> cs,
                 numHexes |-> Cardinality(DOMAIN cs), maxHexes |-> maxHexes,
                 res |-> res, fill |-> JunkCell]
    /\ out = [st |-> UncompactStart(NewBuf(arg.maxHexes, arg.fill)), i |-> 0]
    /\ CompactIdle

UncompactIterate ==
    /\ pc = "loop"
    /\ out.i < arg.numHexes
    /\ LET st == UncompactBody(out.st, arg.compactedSet, arg.maxHexes,
                               arg.res, out.i)
       IN /\ out' = [st |-> st, i |-> IF st.returned THEN out.i ELSE out.i + 1]
          /\ pc' = IF st.returned THEN "done" ELSE "loop"
    /\ UNCHANGED <<arg, CompactVars>>

UncompactFinish ==
    /\ pc = "loop"
    /\ out.i >= arg.numHexes
    /\ out' = [out EXCEPT !.st = UncompactReturn(out.st)]
    /\ pc' = "done"
    /\ UNCHANGED <<arg, CompactVars>>

NextUncompact == UncompactIterate \/ UncompactFinish

SpecUncompact == InitUncompact /\ [][NextUncompact]_vars

-----------------------------------------------------------------------------
(* compact.  The heap allocations are taken to succeed.                     *)

RECURSIVE DigitsMod(_, _, _, _)
DigitsMod(h, n, acc, r) ==
    IF r > MAX_H3_RES THEN acc
    ELSE DigitsMod(h, n, (acc * 8 + h.dig[r]) % n, r + 1)

\* (int)(h % n) for the 64-bit word h, computed field by field
WordMod(h, n) ==
    LET a1 == h.hi % n
        a2 == (a1 * 16 + h.mode) % n
        a3 == (a2 * 8 + h.rsv) % n
        a4 == (a3 * 16 + h.res) % n
        a5 == (a4 * 128 + h.bc) % n
    IN DigitsMod(h, n, a5, 1)

\* the loop counts at which a probe from slot loc meets a slot that holds
\* parent or, for the hashing loop, is empty: the probe looks at slot
\* (loc + k) % n when loopCount is k.  The lookup loop also ends, by its
\* condition, at a later slot equal to parent with its reserved bits.
ProbeStops(hash, parent, loc, n, hashing) ==
    { k \in 0..n :
        \/ hashing /\ hash[(loc + k) % n] = H3_NULL
        \/ ClearReserved(hash[(loc + k) % n]) = parent
        \/ ~hashing /\ k > 0 /\ hash[(loc + k) % n] = parent }

Least(S) == CHOOSE k \in S : \A m \in S : k <= m

\* mutant: a pentagon parent is allowed seven entries
InsertProbe_HexagonLimit(hash, parent, loc, n) ==
    LET stops == ProbeStops(hash, parent, loc, n, TRUE)
    IN IF stops = {}
       THEN [hash |-> hash, err |-> COMPACT_LOOP_EXCEEDED]
       ELSE LET at == (loc + Least(stops)) % n
                count == H3_GET_RESERVED_BITS(hash[at]) + 1
            IN IF hash[at] = H3_NULL
               THEN [hash |-> [hash EXCEPT ![at] = parent], err |-> 0]
               ELSE IF count + 1 > 7
               THEN [hash |-> hash, err |-> COMPACT_DUPLICATE]
               ELSE [hash |-> [hash EXCEPT
                                 ![at] = H3_SET_RESERVED_BITS(parent, count)],
                     err |-> 0]

\* the while loop that hashes parent into the table, from slot loc on, and
\* the store after it; the result is the table and the code returned from
\* inside the loop (0 when the loop ended).  The loop walks over the slots
\* that are neither empty nor hold parent; if every slot is such, loopCount
\* passes n.
InsertProbe(hash, parent, loc, n) ==
    LET stops == ProbeStops(hash, parent, loc, n, TRUE)
    IN IF stops = {}
       THEN [hash |-> hash, err |-> COMPACT_LOOP_EXCEEDED]
       ELSE LET at == (loc + Least(stops)) % n
                tempIndex == ClearReserved(hash[at])
                count == H3_GET_RESERVED_BITS(hash[at]) + 1
                limitCount == IF h3IsPentagon(ClearReserved(tempIndex))
                              THEN 7 - 1 ELSE 7
            IN IF hash[at] = H3_NULL
               THEN [hash |-> [hash EXCEPT ![at] = parent], err |-> 0]
               ELSE IF count + 1 > limitCount
               THEN [hash |-> hash, err |-> COMPACT_DUPLICATE]
               ELSE [hash |-> [hash EXCEPT
                                 ![at] = H3_SET_RESERVED_BITS(parent, count)],
                     err |-> 0]

\* iteration i of the first for loop of a round, on [hash, err]
HashBody(st, remaining, n, parentRes, i) ==
    IF st.err # 0 THEN st
    ELSE LET currIndex == remaining[i] IN
         IF currIndex = H3_NULL THEN st
         ELSE LET parent == h3ToParent(currIndex, parentRes)
                  loc == WordMod(parent, n)
              IN InsertProbe(st.hash, parent, loc, n)

RECURSIVE HashRange(_, _, _, _, _, _)
HashRange(st, remaining, n, parentRes, lo, hi) ==
    IF lo > hi \/ st.err # 0 THEN st
    ELSE IF lo = hi THEN HashBody(st, remaining, n, parentRes, lo)
    ELSE HashRange(HashRange(st, remaining, n, parentRes, lo, (lo + hi) \div 2),
                   remaining, n, parentRes, (lo + hi) \div 2 + 1, hi)

\* mutant: a pentagon parent gets no extra count
CompactableBody_NoPentagon(st, i) ==
    IF st.hash[i] = H3_NULL THEN st
    ELSE IF H3_GET_RESERVED_BITS(st.hash[i]) + 1 = 7
    THEN [st EXCEPT !.compactable = Write(st.compactable, st.count,
                                          ClearReserved(st.hash[i])),
                    !.count = st.count + 1]
    ELSE st

\* iteration i of the second for loop, on [hash, compactable, count]
CompactableBody(st, i) ==
    IF st.hash[i] = H3_NULL THEN st
    ELSE LET count == H3_GET_RESERVED_BITS(st.hash[i]) + 1
             isPent == h3IsPentagon(ClearReserved(st.hash[i]))
             entry == IF isPent THEN H3_SET_RESERVED_BITS(st.hash[i], count)
                      ELSE st.hash[i]
             total == IF isPent THEN count + 1 ELSE count
         IN IF total = 7
            THEN [hash |-> [st.hash EXCEPT ![i] = entry],
                  compactable |-> Write(st.compactable, st.count,
                                        ClearReserved(entry)),
                  count |-> st.count + 1]
            ELSE [st EXCEPT !.hash[i] = entry]

RECURSIVE CompactableRange(_, _, _)
\* (the test on st.count has the iterations before lo evaluated first)
CompactableRange(st, lo, hi) ==
    IF lo > hi \/ st.count > lo THEN st
    ELSE IF lo = hi THEN CompactableBody(st, lo)
    ELSE CompactableRange(CompactableRange(st, lo, (lo + hi) \div 2),
                          (lo + hi) \div 2 + 1, hi)

\* mutant: a parent with six entries is taken to have all its children
LookupProbe_SixIsFull(hash, parent, loc, n) ==
    LET stops == ProbeStops(hash, parent, loc, n, FALSE)
    IN IF stops = {} THEN COMPACT_LOOP_EXCEEDED
       ELSE LET at == (loc + Least(stops)) % n
            IN IF Least(stops) > 0 /\ hash[at] = parent THEN 1
               ELSE IF H3_GET_RESERVED_BITS(hash[at]) + 1 >= 6 THEN 0 ELSE 1

\* the do-while loop that looks parent up from slot loc on: 1 when the cell
\* is uncompactable, 0 when its parent has all its children,
\* COMPACT_LOOP_EXCEEDED when no slot holds parent and loopCount passes n.
\* The loop ends at the first slot that holds parent, by the break when the
\* probe starts there or the slot has a count, by its condition otherwise.
LookupProbe(hash, parent, loc, n) ==
    LET stops == ProbeStops(hash, parent, loc, n, FALSE)
    IN IF stops = {} THEN COMPACT_LOOP_EXCEEDED
       ELSE LET at == (loc + Least(stops)) % n
            IN IF Least(stops) > 0 /\ hash[at] = parent THEN 1
               ELSE IF H3_GET_RESERVED_BITS(hash[at]) + 1 = 7 THEN 0 ELSE 1

\* iteration i of the third for loop, on [out, count, err]; offset is
\* compactedSetOffset
EmitBody(st, remaining, hash, n, parentRes, offset, i) ==
    IF st.err # 0 THEN st
    ELSE LET currIndex == remaining[i] IN
         IF currIndex = H3_NULL THEN st
         ELSE LET parent == h3ToParent(currIndex, parentRes)
                  loc == WordMod(parent, n)
                  found == LookupProbe(hash, parent, loc, n)
              IN IF found = COMPACT_LOOP_EXCEEDED
                 THEN [st EXCEPT !.err = COMPACT_LOOP_EXCEEDED]
                 ELSE IF found = 1
                 THEN [st EXCEPT
                         !.out = Write(st.out, offset + st.count, remaining[i]),
                         !.count = st.count + 1]
                 ELSE st

RECURSIVE EmitRange(_, _, _, _, _, _, _, _)
EmitRange(st, remaining, hash, n, parentRes, offset, lo, hi) ==
    IF lo > hi \/ st.err # 0 THEN st
    ELSE IF lo = hi THEN EmitBody(st, remaining, hash, n, parentRes, offset, lo)
    ELSE EmitRange(EmitRange(st, remaining, hash, n, parentRes, offset,
                             lo, (lo + hi) \div 2),
                   remaining, hash, n, parentRes, offset,
                   (lo + hi) \div 2 + 1, hi)

\* memcpy(dst + at, src, count * sizeof(H3Index)) into a buffer
CopyInto(buf, at, src, count) ==
    [mem |-> [i \in DOMAIN buf.mem |->
                IF i >= at /\ i < at + count THEN src[i - at] ELSE buf.mem[i]],
     written |-> buf.written \cup { at + k : k \in 0..(count - 1) }]

ZeroArray(n) == [i \in 0..(n - 1) |-> H3_NULL]

NumHexes == Cardinality(DOMAIN h3Set)

\* the entry of compact up to the while loop
CompactBegin ==
    /\ pc = "start"
    /\ IF NumHexes = 0
       THEN /\ ret' = COMPACT_SUCCESS
            /\ pc' = "done"
            /\ UNCHANGED <<remainingHexes, hashSetArray, compactedSet,
                           numRemainingHexes>>
       ELSE IF H3_GET_RESOLUTION(h3Set[0]) = 0
       THEN /\ compactedSet' = CopyInto(compactedSet, 0, h3Set, NumHexes)
            /\ ret' = COMPACT_SUCCESS
            /\ pc' = "done"
            /\ UNCHANGED <<remainingHexes, hashSetArray, numRemainingHexes>>
       ELSE /\ remainingHexes' = h3Set
            /\ hashSetArray' = ZeroArray(NumHexes)
            /\ numRemainingHexes' = NumHexes
            /\ pc' = "hash"
            /\ UNCHANGED <<compactedSet, ret>>
    /\ UNCHANGED <<arg, out, h3Set, compactableHexes, compactedSetOffset>>

ParentRes == H3_GET_RESOLUTION(remainingHexes[0]) - 1

\* the first for loop of a round: the parents are hashed and counted
HashParents ==
    /\ pc = "hash"
    /\ LET st == HashRange([hash |-> hashSetArray, err |-> 0], remainingHexes,
                           numRemainingHexes, ParentRes,
                           0, numRemainingHexes - 1)
       IN IF st.err # 0
          THEN /\ ret' = st.err
               /\ pc' = "done"
               /\ UNCHANGED hashSetArray
          ELSE /\ hashSetArray' = st.hash
               /\ pc' = "count"
               /\ UNCHANGED ret
    /\ UNCHANGED <<arg, out, h3Set, remainingHexes, compactableHexes,
                   compactedSet, compactedSetOffset, numRemainingHexes>>

\* fewer than 6 cells remain: they are copied to the output and the loop ends
CopyRemainder ==
    /\ pc = "count"
    /\ numRemainingHexes \div 6 = 0
    /\ compactedSet' = CopyInto(compactedSet, compactedSetOffset,
                                remainingHexes, numRemainingHexes)
    /\ ret' = COMPACT_SUCCESS
    /\ pc' = "done"
    /\ UNCHANGED <<arg, out, h3Set, remainingHexes, hashSetArray,
                   compactableHexes, compactedSetOffset, numRemainingHexes>>

\* the second for loop: the parents with all their children are collected
FindCompactable ==
    /\ pc = "count"
    /\ numRemainingHexes \div 6 # 0
    /\ LET st == CompactableRange(
                    [hash |-> hashSetArray,
                     compactable |-> NewBuf(numRemainingHexes \div 6, H3_NULL),
                     count |-> 0],
                    0, numRemainingHexes - 1)
       IN /\ hashSetArray' = st.hash
          /\ compactableHexes' = st.compactable
          \* a write past the end of compactableHexes is undefined: the
          \* call goes on or is ended there
          /\ \/ pc' = "emit"
             \/ /\ ~(st.compactable.written \subseteq DOMAIN st.compactable.mem)
                /\ pc' = "crashed"
    /\ UNCHANGED <<arg, out, h3Set, remainingHexes, compactedSet,
                   compactedSetOffset, numRemainingHexes, ret>>

CompactableCount == Cardinality(compactableHexes.written)

\* the third for loop and the set-up of the next round
EmitUncompactable ==
    /\ pc = "emit"
    /\ LET st == EmitRange([out |-> compactedSet, count |-> 0, err |-> 0],
                           remainingHexes, hashSetArray, numRemainingHexes,
                           ParentRes, compactedSetOffset,
                           0, numRemainingHexes - 1)
       IN IF st.err # 0
          THEN /\ ret' = st.err
               /\ pc' = "done"
               /\ UNCHANGED <<remainingHexes, hashSetArray, compactedSet,
                              compactedSetOffset, numRemainingHexes>>
          ELSE /\ compactedSet' = st.out
               /\ hashSetArray' = ZeroArray(NumHexes)
               /\ compactedSetOffset' = compactedSetOffset + st.count
               \* what memcpy reads past the end of compactableHexes is
               \* any value
               /\ \E beyond \in Fills :
                    remainingHexes' =
                      [i \in DOMAIN remainingHexes |->
                         IF i >= CompactableCount THEN remainingHexes[i]
                         ELSE IF i \in DOMAIN compactableHexes.mem
                         THEN compactableHexes.mem[i] ELSE beyond]
               /\ numRemainingHexes' = CompactableCount
               /\ IF CompactableCount = 0
                  THEN ret' = COMPACT_SUCCESS /\ pc' = "done"
                  ELSE pc' = "hash" /\ UNCHANGED ret
    /\ UNCHANGED <<arg, out, h3Set, compactableHexes>>

-----------------------------------------------------------------------------
(* Specification of compact: a call on an array of cells two resolutions    *)
(* below a root cell.  The array holds the complete families of some of the *)
(* root's children, a nearly complete or nearly empty family of one more    *)
(* child, and repeats of its first cell, in ascending or descending order.  *)

\* the cell one resolution below c with digit d, and the cells below c
Child(c, d) ==
    [c EXCEPT !.res = c.res + 1, !.dig[c.res + 1] = d]

Kids(c) ==
    SelectSeq([k \in 1..NUM_DIGITS |-> Child(c, k - 1)],
              LAMBDA x : ~(h3IsPentagon(c) /\ x.dig[x.res] = K_AXES_DIGIT))

CompactRoots ==
    { setH3Index(0, 4, 0), setH3Index(0, 121, 0), PatternCell(20, 13, 3, 6) }

\* subsets of S with at most k elements, or missing at most k elements
Near(S, k) ==
    { X \in SUBSET S : Cardinality(X) <= k \/ Cardinality(S \ X) <= k }

\* the families of the root's children: all of them, all but the last, none
WholeFamilies(root) ==
    LET others == 2..Len(Kids(root))
    IN { others, others \ {Len(Kids(root))}, {} }

RECURSIVE Blocks(_, _, _, _)
Blocks(root, whole, part, j) ==
    IF j > Len(Kids(root)) THEN <<>>
    ELSE LET kid == Kids(root)[j]
             block == IF j = 1
                      THEN SelectSeq(Kids(kid), LAMBDA x : x.dig[x.res] \in part)
                      ELSE IF j \in whole THEN Kids(kid) ELSE <<>>
         IN block \o Blocks(root, whole, part, j + 1)

Reverse(s) == [k \in 1..Len(s) |-> s[Len(s) + 1 - k]]

Repeats(s, n) ==
    IF Len(s) = 0 THEN <<>> ELSE [k \in 1..n |-> s[1]]

ToArray(s) == [i \in 0..(Len(s) - 1) |-> s[i + 1]]

CompactInput(a) ==
    IF a.kind = "roots"
    THEN ToArray(<<setH3Index(0, 20, 0), setH3Index(0, 4, 0)>>)
    ELSE LET cells == Blocks(a.root, a.whole, a.part, 1)
             ordered == IF a.rev THEN Reverse(cells) ELSE cells
         IN ToArray(ordered \o Repeats(ordered, a.dups))

CompactArgs ==
    { [op |-> "compact", kind |-> "roots", root |-> H3_NULL, whole |-> {},
       part |-> {}, rev |-> FALSE, dups |-> 0] }
    \cup
    UNION { [op : {"compact"}, kind : {"families"}, root : {root},
             whole : WholeFamilies(root),
             part : Near({ Kids(Kids(root)[1])[k].dig[root.res + 2] :
                             k \in 1..Len(Kids(Kids(root)[1])) }, MaxPartial),
             rev : BOOLEAN, dups : 0..MaxDups] : root \in CompactRoots }

InitCompact ==
    /\ pc = "start"
    /\ arg \in CompactArgs
    /\ out = NoBuf
    /\ h3Set = CompactInput(arg)
    /\ remainingHexes = EmptyArray
    /\ hashSetArray = EmptyArray
    /\ compactableHexes = NoBuf
    /\ compactedSet = NewBuf(Cardinality(DOMAIN h3Set), H3_NULL)
    /\ compactedSetOffset = 0
    /\ numRemainingHexes = 0
    /\ ret = 0

NextCompact ==
    \/ CompactBegin
    \/ HashParents
    \/ CopyRemainder
    \/ FindCompactable
    \/ EmitUncompactable

SpecCompact == InitCompact /\ [][NextCompact]_vars

-----------------------------------------------------------------------------
(* Properties of h3ToChildren and makeDirectChild *)

RECURSIVE Pow7(_)
Pow7(n) == IF n <= 0 THEN 1 ELSE 7 * Pow7(n - 1)

NonNullSlots(buf) == { i \in DOMAIN buf.mem : buf.mem[i] # H3_NULL }
NullSlots(buf) == { i \in DOMAIN buf.mem : buf.mem[i] = H3_NULL }

ChildrenDone == pc = "done" /\ arg.op = "h3ToChildren"
ParentResOfCall == H3_GET_RESOLUTION(arg.h)

\* the cell e has a K digit right below one of its pentagon ancestors
KUnderPentagon(e) ==
    \E r \in 1..H3_GET_RESOLUTION(e) :
        /\ H3_GET_INDEX_DIGIT(e, r) = K_AXES_DIGIT
        /\ h3IsPentagon(h3ToParent(e, r - 1))

\* C6: for a valid hexagon h at resolution p and p <= c <= 15, h3ToChildren
\* writes exactly the 7^(c-p) slots from index 0 on, all of them non-null and
\* pairwise distinct cells of resolution c whose parent at p is h; when c is
\* not a valid child resolution it writes nothing.
C6_HexagonChildren ==
    (ChildrenDone /\ ~h3IsPentagon(arg.h)) =>
        LET p == ParentResOfCall
            c == arg.childRes
            n == Pow7(c - p)
        IN IF p <= c /\ c <= MAX_H3_RES
           THEN /\ out.written = 0..(n - 1)
                /\ \A i \in 0..(n - 1) :
                     /\ out.mem[i] # H3_NULL
                     /\ H3_GET_RESOLUTION(out.mem[i]) = c
                     /\ h3ToParent(out.mem[i], p) = arg.h
                /\ \A i, j \in 0..(n - 1) : i # j => out.mem[i] # out.mem[j]
           ELSE /\ out.written = {}
                /\ \A i \in DOMAIN out.mem : out.mem[i] = arg.fill

C6_Witness ==
    /\ ChildrenDone
    /\ ~h3IsPentagon(arg.h)
    /\ arg.childRes = ParentResOfCall + 2
    /\ arg.fill = JunkCell
    /\ Cardinality(out.written) = 49

\* C7: for a pentagon h at resolution p and c > p, h3ToChildren overwrites all
\* 7^(c-p) slots whatever they held: 1 + 5*(7^(c-p) - 1)/6 of them hold
\* pairwise distinct non-null cells, none with a K digit right below a
\* pentagon, the others hold H3_NULL; 41 of 49 for p = 1 and c = 3.
C7_PentagonChildren ==
    (ChildrenDone /\ h3IsPentagon(arg.h) /\ arg.childRes > ParentResOfCall
       /\ arg.childRes <= MAX_H3_RES) =>
        LET p == ParentResOfCall
            c == arg.childRes
            n == Pow7(c - p)
        IN /\ out.written = 0..(n - 1)
           /\ DOMAIN out.mem = 0..(n - 1)
           /\ Cardinality(NonNullSlots(out)) = 1 + (5 * (n - 1)) \div 6
           /\ \A i, j \in NonNullSlots(out) : i # j => out.mem[i] # out.mem[j]
           /\ \A i \in NonNullSlots(out) :
                /\ ~KUnderPentagon(out.mem[i])
                /\ H3_GET_RESOLUTION(out.mem[i]) = c
                /\ h3ToParent(out.mem[i], p) = arg.h
           /\ \A i \in 0..(n - 1) : i \notin NonNullSlots(out) => out.mem[i] = H3_NULL
           /\ (p = 1 /\ c = 3) =>
                (n = 49 /\ Cardinality(NonNullSlots(out)) = 41)

C7_Witness ==
    /\ ChildrenDone
    /\ h3IsPentagon(arg.h)
    /\ ParentResOfCall = 1
    /\ arg.childRes = 3
    /\ arg.fill = JunkCell
    /\ Cardinality(NonNullSlots(out)) = 41

PentagonRes1To3 ==
    /\ ChildrenDone
    /\ h3IsPentagon(arg.h)
    /\ ParentResOfCall = 1
    /\ arg.childRes = 3

\* C8 as stated: a pentagon at resolution 1 expanded to resolution 3 yields
\* 5*7 + 6*7*7 = 329 non-null children and 7^2 - 329 null placeholders.
C8_Original ==
    PentagonRes1To3 =>
        /\ Cardinality(NonNullSlots(out)) = 5 * 7 + 6 * 7 * 7
        /\ Cardinality(NullSlots(out)) = 7 * 7 - (5 * 7 + 6 * 7 * 7)

\* C8 as amended: a pentagon at resolution 1 expanded to resolution 3 yields
\* 5*7 + 6 = 41 non-null children and 7^2 - 41 = 8 null placeholders.
C8_PentagonRes1To3 ==
    PentagonRes1To3 =>
        /\ Cardinality(NonNullSlots(out)) = 5 * 7 + 6
        /\ Cardinality(NullSlots(out)) = 7 * 7 - (5 * 7 + 6)
        /\ out.written = 0..48

C8_Witness ==
    /\ PentagonRes1To3
    /\ arg.fill = H3_NULL
    /\ Cardinality(NullSlots(out)) = 8

DirectChildDone == pc = "done" /\ arg.op = "makeDirectChild"

\* C9: for a valid cell c with res(c) < 15 and a digit d in 0..6 (not K when c
\* is a pentagon), the parent of makeDirectChild(c, d) at res(c) is c, and
\* makeDirectChild changes only the resolution, to res(c) + 1, and the digit
\* at position res(c) + 1, to d.
C9_DirectChildParent ==
    (DirectChildDone /\ (h3IsPentagon(arg.h) => arg.digit # K_AXES_DIGIT)) =>
        LET r == H3_GET_RESOLUTION(arg.h) IN
        /\ h3ToParent(out, r) = arg.h
        /\ H3_GET_RESOLUTION(out) = r + 1
        /\ H3_GET_INDEX_DIGIT(out, r + 1) = arg.digit
        /\ out.hi = arg.h.hi
        /\ H3_GET_MODE(out) = H3_GET_MODE(arg.h)
        /\ H3_GET_RESERVED_BITS(out) = H3_GET_RESERVED_BITS(arg.h)
        /\ H3_GET_BASE_CELL(out) = H3_GET_BASE_CELL(arg.h)
        /\ \A q \in Digits : q # r + 1 => out.dig[q] = arg.h.dig[q]
        /\ h3IsValid(out)

C9_Witness ==
    /\ DirectChildDone
    /\ H3_GET_RESOLUTION(arg.h) = 14
    /\ arg.digit = 6
    /\ H3_GET_INDEX_DIGIT(out, 15) = 6
    /\ H3_GET_RESOLUTION(out) = 15

-----------------------------------------------------------------------------
(* Properties of uncompact *)

UncompactDone == pc = "done" /\ arg.op = "uncompact"

\* the non-null input cells finer than the target resolution
TooFine == { i \in DOMAIN arg.compactedSet :
               /\ arg.compactedSet[i] # H3_NULL
               /\ H3_GET_RESOLUTION(arg.compactedSet[i]) > arg.res }

\* the number of children at the target resolution of input cell i
SizeAt(i) ==
    IF arg.compactedSet[i] = H3_NULL THEN 0
    ELSE Pow7(arg.res - H3_GET_RESOLUTION(arg.compactedSet[i]))

RECURSIVE SizeBefore(_)
\* the slots needed by the input cells before index i
SizeBefore(i) == IF i <= 0 THEN 0 ELSE SizeBefore(i - 1) + SizeAt(i - 1)

FirstTooFine == CHOOSE i \in TooFine : \A j \in TooFine : i <= j

\* C4 as stated: uncompact returns -2 whenever some non-null input cell is
\* finer than the target resolution, for every maxHexes.
C4_Original ==
    (UncompactDone /\ TooFine # {}) => out.st.ret = -2

\* C4 as amended: when some non-null input cell is finer than the target
\* resolution uncompact returns -2 if the cells before the first such cell
\* need fewer than maxHexes slots, and -1 otherwise.
C4_TooFineInput ==
    (UncompactDone /\ TooFine # {}) =>
        /\ out.st.ret \in {-1, -2}
        /\ out.st.ret = -2 <=> SizeBefore(FirstTooFine) < arg.maxHexes

C4_Witness ==
    /\ UncompactDone
    /\ TooFine # {}
    /\ FirstTooFine = 1
    /\ SizeBefore(FirstTooFine) = 7
    /\ arg.maxHexes = 8
    /\ out.st.ret = -2

\* C5: uncompact never writes h3Set at an index >= maxHexes; when no non-null
\* input is finer than res it returns -1 exactly when maxUncompactSize, the
\* sum of maxH3ToChildrenSize over the non-null inputs, exceeds maxHexes, and
\* 0 otherwise, having then written exactly that many slots from index 0 on.
C5_UncompactBounds ==
    /\ arg.op = "uncompact" =>
         \A i \in out.st.h3Set.written : i >= 0 /\ i < arg.maxHexes
    /\ (UncompactDone /\ TooFine = {}) =>
         LET size == maxUncompactSize(arg.compactedSet, arg.numHexes, arg.res) IN
         /\ size = SizeBefore(arg.numHexes)
         /\ out.st.ret = (IF size > arg.maxHexes THEN -1 ELSE 0)
         /\ out.st.ret = 0 =>
              /\ out.st.h3Set.written = 0..(size - 1)
              /\ out.st.outOffset = size

C5_Witness ==
    /\ UncompactDone
    /\ TooFine = {}
    /\ out.st.ret = 0
    /\ arg.numHexes = 2
    /\ out.st.outOffset = 14
    /\ arg.maxHexes = 14
    /\ \E i \in DOMAIN out.st.h3Set.mem : out.st.h3Set.mem[i] = H3_NULL

-----------------------------------------------------------------------------
(* Properties of compact *)

CompactDone == pc = "done" /\ arg.op = "compact"

InputCells == { h3Set[i] : i \in DOMAIN h3Set }

NoRepeats == Cardinality(InputCells) = NumHexes

InputRes == H3_GET_RESOLUTION(h3Set[0])

OutputSlots == { i \in DOMAIN compactedSet.mem : compactedSet.mem[i] # H3_NULL }

OutputCells == { compactedSet.mem[i] : i \in OutputSlots }

\* the cells one resolution below c
ChildrenOf(c) ==
    { Child(c, d) : d \in { e \in 0..(NUM_DIGITS - 1) :
                              ~(h3IsPentagon(c) /\ e = K_AXES_DIGIT) } }

\* the cell one resolution above c
ParentOf(c) ==
    [c EXCEPT !.res = c.res - 1, !.dig[c.res] = H3_DIGIT_MASK]

RECURSIVE Covered(_)
\* every cell below c at the resolution of the input is in the input
Covered(c) ==
    IF H3_GET_RESOLUTION(c) = InputRes THEN c \in InputCells
    ELSE \A k \in ChildrenOf(c) : Covered(k)

RECURSIVE AncestorsOf(_)
AncestorsOf(c) ==
    IF H3_GET_RESOLUTION(c) = 0 THEN {c} ELSE {c} \cup AncestorsOf(ParentOf(c))

\* the coarsest covered cells: what compaction of the input is
Compaction ==
    { c \in UNION { AncestorsOf(x) : x \in InputCells } :
        /\ Covered(c)
        /\ H3_GET_RESOLUTION(c) > 0 => ~Covered(ParentOf(c)) }

\* uncompact of the output of compact, to the resolution of the input, into
\* a buffer of maxUncompactSize cells
Uncompacted ==
    LET size == maxUncompactSize(compactedSet.mem, NumHexes, InputRes)
    IN uncompact(compactedSet.mem, NumHexes, NewBuf(size, H3_NULL), size,
                 InputRes)

\* C1: for a non-empty input of distinct cells of one resolution compact
\* returns COMPACT_SUCCESS, and uncompact of its output to that resolution
\* returns 0 and yields exactly the input cells.
C1_CompactRoundTrip ==
    (CompactDone /\ NumHexes > 0 /\ NoRepeats) =>
        /\ ret = COMPACT_SUCCESS
        /\ Uncompacted.ret = 0
        /\ { Uncompacted.h3Set.mem[i] : i \in Uncompacted.h3Set.written }
              \ {H3_NULL} = InputCells

C1_Witness ==
    /\ CompactDone
    /\ NoRepeats
    /\ NumHexes >= 6 * NUM_DIGITS
    /\ ret = COMPACT_SUCCESS
    /\ Cardinality(OutputCells) = 1
    /\ Uncompacted.ret = 0

\* the number of input entries below parent p, repeats counted
ParentLoad(p) ==
    Cardinality({ i \in DOMAIN h3Set : ParentOf(h3Set[i]) = p })

\* some parent receives more entries than it has children
Overfull ==
    \E i \in DOMAIN h3Set :
        ParentLoad(ParentOf(h3Set[i])) > Cardinality(ChildrenOf(ParentOf(h3Set[i])))

\* C2 as stated: compact returns COMPACT_DUPLICATE for every input at
\* resolution >= 1 that holds the same cell twice.
C2_Original ==
    (CompactDone /\ NumHexes > 0 /\ InputRes >= 1 /\ ~NoRepeats) =>
        ret = COMPACT_DUPLICATE

\* C2 as amended: for an input at resolution >= 1 that holds the same cell
\* twice, compact returns COMPACT_DUPLICATE exactly when some parent one
\* resolution up receives, repeats counted, more entries than it has
\* children (7, or 6 for a pentagon); otherwise the repeat goes unnoticed
\* and compact returns COMPACT_SUCCESS.
C2_DuplicateDetection ==
    (CompactDone /\ NumHexes > 0 /\ InputRes >= 1 /\ ~NoRepeats) =>
        /\ ret \in {COMPACT_DUPLICATE, COMPACT_SUCCESS}
        /\ ret = COMPACT_DUPLICATE <=> Overfull

C2_Witness ==
    /\ CompactDone
    /\ ~NoRepeats
    /\ InputRes >= 1
    /\ Overfull
    /\ ret = COMPACT_DUPLICATE

\* C3: for a non-empty input of distinct cells of one resolution the output
\* of compact holds, once each, exactly the coarsest cells all of whose
\* descendants at the input resolution are in the input: a family of
\* siblings is replaced by its parent exactly when it is complete, at every
\* resolution, every other cell is emitted unchanged, and the output never
\* holds all the children of a cell.
C3_CompactGroups ==
    (CompactDone /\ NumHexes > 0 /\ NoRepeats) =>
        /\ ret = COMPACT_SUCCESS
        /\ OutputCells = Compaction
        /\ Cardinality(OutputSlots) = Cardinality(OutputCells)
        /\ \A c \in OutputCells :
              H3_GET_RESOLUTION(c) > 0 =>
                 ~(ChildrenOf(ParentOf(c)) \subseteq OutputCells)

C3_Witness ==
    /\ CompactDone
    /\ NoRepeats
    /\ ret = COMPACT_SUCCESS
    /\ \E c \in OutputCells : H3_GET_RESOLUTION(c) = InputRes
    /\ \E c \in OutputCells :
          /\ H3_GET_RESOLUTION(c) = InputRes - 1
          /\ ChildrenOf(c) \subseteq InputCells
    /\ Cardinality(OutputCells) >= NUM_DIGITS

-----------------------------------------------------------------------------
(* Direction digits and the rotations of an index; the end of _faceIjkToH3  *)
(* that rotates the digit string into the orientation of its base cell.     *)

J_AXES_DIGIT == 2
JK_AXES_DIGIT == 3
I_AXES_DIGIT == 4
IK_AXES_DIGIT == 5
IJ_AXES_DIGIT == 6

MaxEncodeRes == 2    \* finest resolution of the digit strings that are rotated

_rotate60ccw(digit) ==
    CASE digit = K_AXES_DIGIT -> IK_AXES_DIGIT
      [] digit = IK_AXES_DIGIT -> I_AXES_DIGIT
      [] digit = I_AXES_DIGIT -> IJ_AXES_DIGIT
      [] digit = IJ_AXES_DIGIT -> J_AXES_DIGIT
      [] digit = J_AXES_DIGIT -> JK_AXES_DIGIT
      [] digit = JK_AXES_DIGIT -> K_AXES_DIGIT
      [] OTHER -> digit

\* mutant: the clockwise rotation leaves every digit alone
_rotate60cw_Identity(digit) == digit

_rotate60cw(digit) ==
    CASE digit = K_AXES_DIGIT -> JK_AXES_DIGIT
      [] digit = JK_AXES_DIGIT -> J_AXES_DIGIT
      [] digit = J_AXES_DIGIT -> IJ_AXES_DIGIT
      [] digit = IJ_AXES_DIGIT -> I_AXES_DIGIT
      [] digit = I_AXES_DIGIT -> IK_AXES_DIGIT
      [] digit = IK_AXES_DIGIT -> K_AXES_DIGIT
      [] OTHER -> digit

_h3Rotate60cw(h) ==
    [h EXCEPT !.dig = [r \in Digits |->
        IF r <= H3_GET_RESOLUTION(h) THEN _rotate60cw(h.dig[r]) ELSE h.dig[r]]]

_h3Rotate60ccw(h) ==
    [h EXCEPT !.dig = [r \in Digits |->
        IF r <= H3_GET_RESOLUTION(h) THEN _rotate60ccw(h.dig[r]) ELSE h.dig[r]]]

RECURSIVE RotatePentFrom(_, _, _)
\* the loop of _h3RotatePent60ccw from digit r on: each digit is rotated
\* counter-clockwise, and at the first non-zero digit the whole index is
\* rotated once more if its leading digit has become K
RotatePentFrom(h, r, found) ==
    IF r > H3_GET_RESOLUTION(h) THEN h
    ELSE LET h1 == H3_SET_INDEX_DIGIT(h, r, _rotate60ccw(H3_GET_INDEX_DIGIT(h, r)))
         IN IF ~found /\ H3_GET_INDEX_DIGIT(h1, r) # 0
            THEN RotatePentFrom(
                    IF _h3LeadingNonZeroDigit(h1) = K_AXES_DIGIT
                    THEN _h3Rotate60ccw(h1) ELSE h1,
                    r + 1, TRUE)
            ELSE RotatePentFrom(h1, r + 1, found)

_h3RotatePent60ccw(h) == RotatePentFrom(h, 1, FALSE)

\* the digit strings the up-aperture loop can leave in h, on base cell bc
DigitStrings(bc) ==
    UNION { { [hi |-> 0, mode |-> H3_HEXAGON_MODE, rsv |-> 0, res |-> res,
               bc |-> bc,
               dig |-> [r \in Digits |-> IF r <= res THEN d[r] ELSE H3_DIGIT_MASK]] :
              d \in [1..res -> 0..(NUM_DIGITS - 1)] } : res \in 1..MaxEncodeRes }

InitEncode ==
    /\ pc = "force"
    /\ \E bc \in {4, 20} : \E h \in DigitStrings(bc) :
       \E n \in 0..5 : \E cw \in BOOLEAN :
          /\ arg = [op |-> "_faceIjkToH3", h |-> h, numRots |-> n,
                    cwOffset |-> cw]
          /\ out = [h |-> h, i |-> 0]
    /\ CompactIdle

\* if (_isBaseCellPentagon(baseCell)) { if (leading digit is K) rotate }
EncodeForceOutOfK ==
    /\ pc = "force"
    /\ out' = IF /\ _isBaseCellPentagon(H3_GET_BASE_CELL(out.h))
                 /\ _h3LeadingNonZeroDigit(out.h) = K_AXES_DIGIT
              THEN [out EXCEPT !.h = IF arg.cwOffset THEN _h3Rotate60cw(out.h)
                                     ELSE _h3Rotate60ccw(out.h)]
              ELSE out
    /\ pc' = "rotate"
    /\ UNCHANGED <<arg, CompactVars>>

\* one iteration of for (i = 0; i < numRots; i++)
EncodeRotate ==
    /\ pc = "rotate"
    /\ out.i < arg.numRots
    /\ out' = [h |-> IF _isBaseCellPentagon(H3_GET_BASE_CELL(out.h))
                     THEN _h3RotatePent60ccw(out.h)
                     ELSE _h3Rotate60ccw(out.h),
               i |-> out.i + 1]
    /\ UNCHANGED <<pc, arg, CompactVars>>

EncodeReturn ==
    /\ pc = "rotate"
    /\ out.i >= arg.numRots
    /\ pc' = "done"
    /\ UNCHANGED <<arg, out, CompactVars>>

NextEncode == EncodeForceOutOfK \/ EncodeRotate \/ EncodeReturn

SpecEncode == InitEncode /\ [][NextEncode]_vars

EncodeDone == pc = "done" /\ arg.op = "_faceIjkToH3"

\* C11: the index _faceIjkToH3 returns on a pentagon base cell never has K as
\* its leading non-zero digit, whatever digit string the up-aperture loop
\* left, for every rotation count 0..5 and either outcome of the test for a
\* clockwise-offset face; the same holds after every rotation of the loop.
C11_PentagonLeadingDigit ==
    (arg.op = "_faceIjkToH3" /\ pc # "force"
       /\ _isBaseCellPentagon(H3_GET_BASE_CELL(out.h))) =>
        /\ out.h # H3_NULL
        /\ _h3LeadingNonZeroDigit(out.h) # K_AXES_DIGIT
        /\ _h3LeadingNonZeroDigit(out.h) = 0 <=> _h3LeadingNonZeroDigit(arg.h) = 0

C11_Witness ==
    /\ EncodeDone
    /\ _isBaseCellPentagon(H3_GET_BASE_CELL(out.h))
    /\ _h3LeadingNonZeroDigit(arg.h) = K_AXES_DIGIT
    /\ H3_GET_INDEX_DIGIT(arg.h, 1) = 0
    /\ arg.numRots = 5
    /\ arg.cwOffset
    /\ _h3LeadingNonZeroDigit(out.h) \in 2..6

-----------------------------------------------------------------------------
(* Specification of validation: a word is built as the test                 *)
(* h3IsValidReservedBits builds it (a word, then H3_SET_RESERVED_BITS) and  *)
(* handed to h3IsValid.                                                     *)

\* H3_INIT with mode CELL, as the test builds it
InitCell == H3_SET_MODE(H3_INIT, H3_HEXAGON_MODE)

\* words that are valid cells, and words that break one rule each
ValidityBase ==
    { InitCell, PatternCell(20, 2, 2, 5), PatternCell(4, 2, 0, 3),
      setH3Index(1, 4, K_AXES_DIGIT), PatternCell(4, 2, 0, K_AXES_DIGIT),
      setH3Index(MAX_H3_RES, 121, 6) }

ValidityPool ==
    UNION { { h,
              [h EXCEPT !.hi = 1],
              [h EXCEPT !.mode = 0],
              [h EXCEPT !.mode = 2],
              [h EXCEPT !.bc = NUM_BASE_CELLS],
              [h EXCEPT !.bc = 127],
              [h EXCEPT !.res = (h.res + 1) % 16],
              [h EXCEPT !.dig[1] = H3_DIGIT_MASK],
              [h EXCEPT !.dig[MAX_H3_RES] = 0] } : h \in ValidityBase }

InitValid ==
    /\ pc = "build"
    /\ \E h \in ValidityPool : \E i \in 0..7 :
          /\ arg = [op |-> "h3IsValid", h |-> h, i |-> i]
          /\ out = [h |-> h, valid |-> FALSE]
    /\ CompactIdle

\* H3_SET_RESERVED_BITS(h, i)
BuildReserved ==
    /\ pc = "build"
    /\ out' = [out EXCEPT !.h = H3_SET_RESERVED_BITS(out.h, arg.i)]
    /\ pc' = "validate"
    /\ UNCHANGED <<arg, CompactVars>>

CallH3IsValid ==
    /\ pc = "validate"
    /\ out' = [out EXCEPT !.valid = h3IsValid(out.h)]
    /\ pc' = "done"
    /\ UNCHANGED <<arg, CompactVars>>

NextValid == BuildReserved \/ CallH3IsValid

SpecValid == InitValid /\ [][NextValid]_vars

ValidDone == pc = "done" /\ arg.op = "h3IsValid"

\* the first non-zero digit among the res digits of a word
FirstNonZero(h) ==
    LET nz == { r \in Digits : r <= h.res /\ h.dig[r] # 0 }
    IN IF nz = {} THEN 0 ELSE h.dig[CHOOSE r \in nz : \A q \in nz : r <= q]

\* C12: h3IsValid(h) is true exactly when the high bit is 0, the mode is
\* CELL, the reserved field is 0, the resolution is in 0..15, the base cell
\* is in 0..121, every digit at a position <= res is in 0..6, every digit
\* after it is 7 and, on a pentagon base cell, the first non-zero digit is
\* not K; a word built with mode CELL and then reserved bits i is valid for
\* i = 0 and invalid for i in 1..7.
C12_ValidCell ==
    ValidDone =>
        /\ out.valid <=>
              /\ out.h.hi = 0
              /\ out.h.mode = 1
              /\ out.h.rsv = 0
              /\ out.h.res \in 0..15
              /\ out.h.bc \in 0..121
              /\ \A r \in 1..15 : r <= out.h.res => out.h.dig[r] \in 0..6
              /\ \A r \in 1..15 : r > out.h.res => out.h.dig[r] = 7
              /\ out.h.bc \in PentagonBaseCells => FirstNonZero(out.h) # 1
        /\ out.h.rsv = arg.i
        /\ arg.h = InitCell => (out.valid <=> arg.i = 0)

C12_Witness ==
    /\ ValidDone
    /\ arg.h = InitCell
    /\ arg.i = 7
    /\ out.h # arg.h
    /\ ~out.valid

-----------------------------------------------------------------------------
(* h3IndexesAreNeighbors.  kRing is not part of the sources: its result is  *)
(* an input of the model, an array of 7 cells that holds the origin, the    *)
(* siblings next to it on the hexagon grid and some cells of other parents. *)

H3_UNIEDGE_MODE == 2

\* the unit vector of each digit, as <<i, j, k>>
UNIT_VECS ==
    [d \in 0..(NUM_DIGITS - 1) |->
        CASE d = CENTER_DIGIT -> <<0, 0, 0>>
          [] d = K_AXES_DIGIT -> <<0, 0, 1>>
          [] d = J_AXES_DIGIT -> <<0, 1, 0>>
          [] d = JK_AXES_DIGIT -> <<0, 1, 1>>
          [] d = I_AXES_DIGIT -> <<1, 0, 0>>
          [] d = IK_AXES_DIGIT -> <<1, 0, 1>>
          [] d = IJ_AXES_DIGIT -> <<1, 1, 0>>]

Min3(a, b, c) == IF a <= b /\ a <= c THEN a ELSE IF b <= c THEN b ELSE c

\* normalization subtracts min(i, j, k) from each component
_ijkNormalize(v) ==
    <<v[1] - Min3(v[1], v[2], v[3]), v[2] - Min3(v[1], v[2], v[3]),
      v[3] - Min3(v[1], v[2], v[3])>>

_ijkSub(h1, h2) == <<h1[1] - h2[1], h1[2] - h2[2], h1[3] - h2[3]>>

neighborSetClockwise ==
    [d \in 0..6 |->
        CASE d = 0 -> CENTER_DIGIT [] d = 1 -> JK_AXES_DIGIT
          [] d = 2 -> IJ_AXES_DIGIT [] d = 3 -> J_AXES_DIGIT
          [] d = 4 -> IK_AXES_DIGIT [] d = 5 -> K_AXES_DIGIT
          [] d = 6 -> I_AXES_DIGIT]

\* mutant: the entries for J and JK are exchanged
neighborSetCounterclockwise_Swapped ==
    [d \in 0..6 |->
        CASE d = 0 -> CENTER_DIGIT [] d = 1 -> IK_AXES_DIGIT
          [] d = 2 -> K_AXES_DIGIT [] d = 3 -> JK_AXES_DIGIT
          [] d = 4 -> IJ_AXES_DIGIT [] d = 5 -> I_AXES_DIGIT
          [] d = 6 -> J_AXES_DIGIT]

neighborSetCounterclockwise ==
    [d \in 0..6 |->
        CASE d = 0 -> CENTER_DIGIT [] d = 1 -> IK_AXES_DIGIT
          [] d = 2 -> JK_AXES_DIGIT [] d = 3 -> K_AXES_DIGIT
          [] d = 4 -> IJ_AXES_DIGIT [] d = 5 -> I_AXES_DIGIT
          [] d = 6 -> J_AXES_DIGIT]

\* neighborRing is what kRing(origin, 1, neighborRing) left in the array
h3IndexesAreNeighbors(origin, destination, neighborRing) ==
    IF H3_GET_MODE(origin) # H3_HEXAGON_MODE
          \/ H3_GET_MODE(destination) # H3_HEXAGON_MODE
    THEN 0
    ELSE IF origin = destination THEN 0
    ELSE IF H3_GET_RESOLUTION(origin) # H3_GET_RESOLUTION(destination) THEN 0
    ELSE LET parentRes == H3_GET_RESOLUTION(origin) - 1
             originResDigit == H3_GET_INDEX_DIGIT(origin, parentRes + 1)
             destinationResDigit == H3_GET_INDEX_DIGIT(destination, parentRes + 1)
         IN IF /\ parentRes > 0
               /\ h3ToParent(origin, parentRes) = h3ToParent(destination, parentRes)
               /\ \/ originResDigit = CENTER_DIGIT
                  \/ destinationResDigit = CENTER_DIGIT
                  \/ neighborSetClockwise[originResDigit] = destinationResDigit
                  \/ neighborSetCounterclockwise[originResDigit] = destinationResDigit
            THEN 1
            ELSE IF \E i \in 0..6 : neighborRing[i] = destination THEN 1
            ELSE 0

\* two children of one parent touch on the grid: their unit vectors differ by
\* a unit vector; around a pentagon the K wedge is missing and JK meets IK
SiblingsTouch(parent, d1, d2) ==
    \/ /\ d1 # d2
       /\ \E d \in 1..6 :
            _ijkNormalize(_ijkSub(UNIT_VECS[d1], UNIT_VECS[d2])) = UNIT_VECS[d]
    \/ /\ h3IsPentagon(parent)
       /\ {d1, d2} = {JK_AXES_DIGIT, IK_AXES_DIGIT}

SiblingNeighbors(origin) ==
    LET parent == h3ToParent(origin, H3_GET_RESOLUTION(origin) - 1)
    IN { c \in ChildrenOf(parent) :
           SiblingsTouch(parent, origin.dig[origin.res], c.dig[c.res]) }

NeighborParents ==
    { setH3Index(1, 20, JK_AXES_DIGIT), setH3Index(1, 4, CENTER_DIGIT),
      setH3Index(0, 20, CENTER_DIGIT), PatternCell(121, 13, 3, 6) }

\* cells of other parents that the ring of an origin may hold
Cousins(origin) ==
    { [origin EXCEPT !.dig[origin.res] = 0, !.bc = 21],
      [origin EXCEPT !.dig[origin.res] = IJ_AXES_DIGIT, !.bc = 21] }

\* the array kRing fills: the origin, then the ring, then zeroes
RingArray(origin, cells) ==
    LET RECURSIVE Enum(_)
        Enum(S) == IF S = {} THEN <<>>
                   ELSE LET x == CHOOSE y \in S : TRUE
                        IN <<x>> \o Enum(S \ {x})
        s == <<origin>> \o Enum(cells)
    IN [i \in 0..6 |-> IF i < Len(s) THEN s[i + 1] ELSE H3_NULL]

NeighborInputs ==
    UNION { { [op |-> "h3IndexesAreNeighbors", origin |-> o, destination |-> d,
               ring |-> SiblingNeighbors(o) \cup X] :
                d \in ChildrenOf(p) \cup Cousins(o)
                      \cup {p, H3_NULL, H3_SET_MODE(o, H3_UNIEDGE_MODE),
                            H3_SET_MODE(CHOOSE c \in SiblingNeighbors(o) : TRUE,
                                        H3_UNIEDGE_MODE)},
                X \in { Y \in SUBSET Cousins(o) :
                          Cardinality(SiblingNeighbors(o) \cup Y) <= 6 } } :
            <<p, o>> \in { <<q, c>> \in NeighborParents \X
                              UNION { ChildrenOf(q) : q \in NeighborParents } :
                              c \in ChildrenOf(q) } }

InitNeighbors ==
    /\ pc = "call"
    /\ arg \in NeighborInputs
    /\ out = 0
    /\ CompactIdle

CallH3IndexesAreNeighbors ==
    /\ pc = "call"
    /\ arg.op = "h3IndexesAreNeighbors"
    /\ out' = h3IndexesAreNeighbors(arg.origin, arg.destination,
                                    RingArray(arg.origin, arg.ring))
    /\ pc' = "done"
    /\ UNCHANGED <<arg, CompactVars>>

NextNeighbors == CallH3IndexesAreNeighbors

SpecNeighbors == InitNeighbors /\ [][NextNeighbors]_vars

NeighborsDone == pc = "done" /\ arg.op = "h3IndexesAreNeighbors"

SameParent(a, b) ==
    /\ a.res = b.res
    /\ a.res > 0
    /\ ParentOf(a) = ParentOf(b)

\* C13: h3IndexesAreNeighbors answers 1 exactly when the destination is in
\* the ring of distance 1 around the origin and is not the origin; whenever
\* it answers 1 for two children of one parent the two touch on the grid;
\* it answers 0 for equal arguments, for different resolutions and for an
\* argument whose mode is not the cell mode.
C13_Neighbors ==
    NeighborsDone =>
        /\ out = 1 <=> arg.destination \in (arg.ring \ {arg.origin})
        /\ out \in {0, 1}
        /\ (out = 1 /\ SameParent(arg.origin, arg.destination)) =>
              SiblingsTouch(ParentOf(arg.origin),
                            arg.origin.dig[arg.origin.res],
                            arg.destination.dig[arg.destination.res])
        /\ arg.origin = arg.destination => out = 0
        /\ arg.origin.res # arg.destination.res => out = 0
        /\ (arg.origin.mode # H3_HEXAGON_MODE
              \/ arg.destination.mode # H3_HEXAGON_MODE) => out = 0

\* two non-centre children of a hexagon below resolution 1 found adjacent by
\* the digit tables alone
C13_Witness ==
    /\ NeighborsDone
    /\ out = 1
    /\ SameParent(arg.origin, arg.destination)
    /\ arg.origin.res > 1
    /\ arg.origin.dig[arg.origin.res] # CENTER_DIGIT
    /\ arg.destination.dig[arg.destination.res] # CENTER_DIGIT

-----------------------------------------------------------------------------
(* Unidirectional edges.  h3NeighborRotations and directionForNeighbor are  *)
(* not part of the sources: the neighbour of the origin in each direction   *)
(* is an input of the model, a function nbr from 1..6 to cells.             *)

INVALID_DIGIT == 7

\* the neighbour of origin in direction dir, by the table nbr
h3NeighborRotations(origin, dir, nbr) ==
    IF dir \in DOMAIN nbr THEN nbr[dir] ELSE H3_NULL

RECURSIVE DirectionFrom(_, _, _, _)
DirectionFrom(origin, destination, nbr, direction) ==
    IF direction >= NUM_DIGITS THEN INVALID_DIGIT
    ELSE IF h3NeighborRotations(origin, direction, nbr) = destination
         THEN direction
         ELSE DirectionFrom(origin, destination, nbr, direction + 1)

\* the first direction whose neighbour is the destination; a pentagon has
\* no neighbour in the K direction
directionForNeighbor(origin, destination, nbr) ==
    DirectionFrom(origin, destination, nbr,
                  IF h3IsPentagon(origin) THEN J_AXES_DIGIT ELSE K_AXES_DIGIT)

\* mutant: the direction is not stored
getH3UnidirectionalEdge_NoDirection(origin, destination, nbr) ==
    IF directionForNeighbor(origin, destination, nbr) = INVALID_DIGIT
    THEN H3_NULL
    ELSE H3_SET_MODE(origin, H3_UNIEDGE_MODE)

getH3UnidirectionalEdge(origin, destination, nbr) ==
    LET direction == directionForNeighbor(origin, destination, nbr)
    IN IF direction = INVALID_DIGIT
       THEN H3_NULL
       ELSE H3_SET_RESERVED_BITS(H3_SET_MODE(origin, H3_UNIEDGE_MODE), direction)

getOriginH3IndexFromUnidirectionalEdge(edge) ==
    H3_SET_RESERVED_BITS(H3_SET_MODE(edge, H3_HEXAGON_MODE), 0)

getDestinationH3IndexFromUnidirectionalEdge(edge, nbr) ==
    IF H3_GET_MODE(edge) # H3_UNIEDGE_MODE
    THEN H3_NULL
    ELSE h3NeighborRotations(getOriginH3IndexFromUnidirectionalEdge(edge),
                             H3_GET_RESERVED_BITS(edge), nbr)

getH3IndexesFromUnidirectionalEdge(edge, nbr) ==
    [i \in 0..1 |->
        IF i = 0 THEN getOriginH3IndexFromUnidirectionalEdge(edge)
        ELSE getDestinationH3IndexFromUnidirectionalEdge(edge, nbr)]

\* mutant: the K direction is refused for every origin
h3UnidirectionalEdgeIsValid_NoK(edge) ==
    IF H3_GET_MODE(edge) # H3_UNIEDGE_MODE THEN 0
    ELSE IF H3_GET_RESERVED_BITS(edge) <= K_AXES_DIGIT
              \/ H3_GET_RESERVED_BITS(edge) >= NUM_DIGITS THEN 0
    ELSE IF h3IsValid(getOriginH3IndexFromUnidirectionalEdge(edge)) THEN 1 ELSE 0

h3UnidirectionalEdgeIsValid(edge) ==
    IF H3_GET_MODE(edge) # H3_UNIEDGE_MODE THEN 0
    ELSE LET neighborDirection == H3_GET_RESERVED_BITS(edge)
             origin == getOriginH3IndexFromUnidirectionalEdge(edge)
         IN IF neighborDirection <= CENTER_DIGIT \/ neighborDirection >= NUM_DIGITS
            THEN 0
            ELSE IF h3IsPentagon(origin) /\ neighborDirection = K_AXES_DIGIT
            THEN 0
            ELSE IF h3IsValid(origin) THEN 1 ELSE 0

\* mutant: the pentagon's K slot is written like the others
EdgesLoopBody_NoNull(edges, origin, i) ==
    Write(edges, i, H3_SET_RESERVED_BITS(H3_SET_MODE(origin, H3_UNIEDGE_MODE), i + 1))

\* one iteration of the loop of getH3UnidirectionalEdgesFromHexagon
EdgesLoopBody(edges, origin, i) ==
    IF h3IsPentagon(origin) /\ i = 0
    THEN Write(edges, i, H3_NULL)
    ELSE Write(edges, i,
               H3_SET_RESERVED_BITS(H3_SET_MODE(origin, H3_UNIEDGE_MODE), i + 1))

RECURSIVE EdgesLoop(_, _, _)
EdgesLoop(edges, origin, i) ==
    IF i >= 6 THEN edges
    ELSE EdgesLoop(EdgesLoopBody(edges, origin, i), origin, i + 1)

getH3UnidirectionalEdgesFromHexagon(origin, edges) == EdgesLoop(edges, origin, 0)

EdgeOrigins ==
    { setH3Index(0, 4, CENTER_DIGIT), setH3Index(1, 4, CENTER_DIGIT),
      setH3Index(1, 4, J_AXES_DIGIT), setH3Index(2, 20, IK_AXES_DIGIT),
      setH3Index(0, 20, CENTER_DIGIT), PatternCell(121, 13, 3, 6) }

\* words that are not valid cells: K leads below a pentagon base cell, a 7
\* inside the resolution, a base cell out of range
BadOrigins ==
    { setH3Index(1, 4, K_AXES_DIGIT), setH3Index(2, 20, H3_DIGIT_MASK),
      setH3Index(1, NUM_BASE_CELLS, J_AXES_DIGIT) }

MaxTurn == 2

\* a neighbour table for origin: six distinct cells, none towards K for a
\* pentagon; k turns the table
NeighborTable(origin, k) ==
    [d \in 1..6 |->
        IF h3IsPentagon(origin) /\ d = K_AXES_DIGIT THEN H3_NULL
        ELSE H3_SET_BASE_CELL(origin,
                 (H3_GET_BASE_CELL(origin) + 1 + ((d + k) % 6)) % NUM_BASE_CELLS)]

EdgeSlots == 8

EdgeInputs ==
    UNION { { [op |-> "getH3UnidirectionalEdge", origin |-> o, destination |-> b,
               nbr |-> NeighborTable(o, k)] :
                b \in ({ NeighborTable(o, k)[d] : d \in 1..6 } \ {H3_NULL})
                        \cup {o, H3_SET_BASE_CELL(o, 60)} } :
            <<o, k>> \in EdgeOrigins \X (0..MaxTurn) }
    \cup { [op |-> "h3UnidirectionalEdgeIsValid",
            edge |-> H3_SET_RESERVED_BITS(H3_SET_MODE(o, m), r)] :
              o \in EdgeOrigins \cup BadOrigins,
              m \in {H3_HEXAGON_MODE, H3_UNIEDGE_MODE, 3},
              r \in 0..7 }
    \cup { [op |-> "getH3UnidirectionalEdgesFromHexagon", origin |-> o,
            edges |-> NewBuf(EdgeSlots, f)] :
              o \in EdgeOrigins, f \in Fills }

InitEdge ==
    /\ pc = "call"
    /\ arg \in EdgeInputs
    /\ out = NoBuf
    /\ CompactIdle

CallGetH3UnidirectionalEdge ==
    /\ pc = "call"
    /\ arg.op = "getH3UnidirectionalEdge"
    /\ out' = [edge |-> getH3UnidirectionalEdge(arg.origin, arg.destination, arg.nbr),
               originDestination |-> [i \in 0..1 |-> H3_NULL]]
    /\ pc' = "edge"
    /\ UNCHANGED <<arg, CompactVars>>

CallGetH3IndexesFromUnidirectionalEdge ==
    /\ pc = "edge"
    /\ out' = [out EXCEPT !.originDestination =
                   getH3IndexesFromUnidirectionalEdge(out.edge, arg.nbr)]
    /\ pc' = "done"
    /\ UNCHANGED <<arg, CompactVars>>

CallH3UnidirectionalEdgeIsValid ==
    /\ pc = "call"
    /\ arg.op = "h3UnidirectionalEdgeIsValid"
    /\ out' = h3UnidirectionalEdgeIsValid(arg.edge)
    /\ pc' = "done"
    /\ UNCHANGED <<arg, CompactVars>>

CallGetH3UnidirectionalEdgesFromHexagon ==
    /\ pc = "call"
    /\ arg.op = "getH3UnidirectionalEdgesFromHexagon"
    /\ out' = getH3UnidirectionalEdgesFromHexagon(arg.origin, arg.edges)
    /\ pc' = "done"
    /\ UNCHANGED <<arg, CompactVars>>

NextEdge ==
    \/ CallGetH3UnidirectionalEdge
    \/ CallGetH3IndexesFromUnidirectionalEdge
    \/ CallH3UnidirectionalEdgeIsValid
    \/ CallGetH3UnidirectionalEdgesFromHexagon

SpecEdge == InitEdge /\ [][NextEdge]_vars

\* C14: for an origin and one of its neighbours the edge is not null, is the
\* origin word with the edge mode and the direction of the neighbour in the
\* reserved field, and the lookup gives back the origin and the neighbour.
C14_EdgeRoundTrip ==
    (arg.op = "getH3UnidirectionalEdge" /\ pc # "call"
        /\ \E d \in 1..6 : arg.nbr[d] = arg.destination) =>
        /\ out.edge # H3_NULL
        /\ \E d \in 1..6 :
             /\ arg.nbr[d] = arg.destination
             /\ out.edge = [arg.origin EXCEPT !.mode = H3_UNIEDGE_MODE, !.rsv = d]
        /\ pc = "done" =>
             /\ out.originDestination[0] = arg.origin
             /\ out.originDestination[1] = arg.destination

C14_Witness ==
    /\ arg.op = "getH3UnidirectionalEdge"
    /\ pc = "done"
    /\ h3IsPentagon(arg.origin)
    /\ out.edge # H3_NULL
    /\ out.edge.rsv = IJ_AXES_DIGIT
    /\ out.originDestination[1] = arg.destination

EdgeValidDone == pc = "done" /\ arg.op = "h3UnidirectionalEdgeIsValid"

\* the origin of an edge word: the same word as a cell
OriginOf(e) == [e EXCEPT !.mode = H3_HEXAGON_MODE, !.rsv = 0]

\* the claim as stated: the direction must lie in 2..6
C15_Original ==
    EdgeValidDone =>
        (out = 1 <=>
            /\ arg.edge.mode = H3_UNIEDGE_MODE
            /\ arg.edge.rsv \in 2..6
            /\ ~(h3IsPentagon(OriginOf(arg.edge)) /\ arg.edge.rsv = K_AXES_DIGIT)
            /\ h3IsValid(OriginOf(arg.edge)))

\* C15: h3UnidirectionalEdgeIsValid answers 1 exactly when the mode is the
\* edge mode, the direction in the reserved field is in 1..6, the direction
\* is not K when the origin is a pentagon, and the origin is a valid cell.
C15_EdgeValid ==
    EdgeValidDone =>
        /\ out \in {0, 1}
        /\ out = 1 <=>
            /\ arg.edge.mode = H3_UNIEDGE_MODE
            /\ arg.edge.rsv \in 1..6
            /\ ~(h3IsPentagon(OriginOf(arg.edge)) /\ arg.edge.rsv = K_AXES_DIGIT)
            /\ h3IsValid(OriginOf(arg.edge))

\* an edge towards K from a hexagon is accepted
C15_Witness ==
    /\ EdgeValidDone
    /\ out = 1
    /\ arg.edge.rsv = K_AXES_DIGIT
    /\ ~h3IsPentagon(OriginOf(arg.edge))

EdgesDone == pc = "done" /\ arg.op = "getH3UnidirectionalEdgesFromHexagon"

\* C16: getH3UnidirectionalEdgesFromHexagon writes the slots 0..5 and no
\* other; slot i is the origin word with the edge mode and reserved i + 1,
\* but slot 0 of a pentagon is H3_NULL; every slot that is not null is a
\* valid edge whose origin is the input, and the direction of the null slot
\* is the only one whose edge word the validity test refuses.
C16_EdgesFromHexagon ==
    EdgesDone =>
        /\ out.written = 0..5
        /\ \A i \in 6..(EdgeSlots - 1) : out.mem[i] = arg.edges.mem[i]
        /\ \A i \in 0..5 :
             LET e == [arg.origin EXCEPT !.mode = H3_UNIEDGE_MODE, !.rsv = i + 1]
             IN /\ out.mem[i] = IF h3IsPentagon(arg.origin) /\ i = 0
                                THEN H3_NULL ELSE e
                /\ out.mem[i] # H3_NULL =>
                     /\ h3UnidirectionalEdgeIsValid(out.mem[i]) = 1
                     /\ getOriginH3IndexFromUnidirectionalEdge(out.mem[i]) = arg.origin
                /\ out.mem[i] = H3_NULL <=> h3UnidirectionalEdgeIsValid(e) = 0

C16_Witness ==
    /\ EdgesDone
    /\ h3IsPentagon(arg.origin)
    /\ arg.origin.res > 0
    /\ out.mem[0] = H3_NULL
    /\ out.mem[5] # H3_NULL
    /\ out.mem[6] # H3_NULL

-----------------------------------------------------------------------------
(* h3Line.  h3Distance, localIjkToH3, cubeRound and the tables that         *)
(* h3ToLocalIjk reads are not part of the sources: a cell of the patch      *)
(* around the start is numbered by its normalized local coordinate, and a   *)
(* cell outside the patch has no local coordinate.  A coordinate is a       *)
(* record [i, j, k]; the interpolated values are exact fractions over the   *)
(* distance.                                                                *)

MaxCoord == 2
LocalBase == 16
\* an index outside the patch
FarCell == LocalBase * LocalBase * LocalBase

Abs(x) == IF x < 0 THEN -x ELSE x
Max(a, b) == IF a >= b THEN a ELSE b

Ijk(i, j, k) == [i |-> i, j |-> j, k |-> k]

IjkNormalized(c) ==
    LET v == _ijkNormalize(<<c.i, c.j, c.k>>) IN Ijk(v[1], v[2], v[3])

ijkDistance(c1, c2) ==
    LET diff == IjkNormalized(Ijk(c1.i - c2.i, c1.j - c2.j, c1.k - c2.k))
    IN Max(Abs(diff.i), Max(Abs(diff.j), Abs(diff.k)))

\* mutant: k is computed from the coordinates as they were on entry
ijkToCube_OldValues(ijk) ==
    Ijk(-ijk.i + ijk.k, ijk.j - ijk.k, -ijk.i - ijk.j)

\* in place: the third assignment reads the i and j already replaced
ijkToCube(ijk) ==
    LET i == -ijk.i + ijk.k
        j == ijk.j - ijk.k
    IN Ijk(i, j, -i - j)

cubeToIjk(ijk) == IjkNormalized(Ijk(-ijk.i, ijk.j, 0))

\* round(num / den) of the C library: halves go away from zero
RoundFraction(num, den) ==
    IF num >= 0 THEN (2 * num + den) \div (2 * den)
    ELSE -((2 * (-num) + den) \div (2 * den))

\* rounds the cube coordinate (i, j, k) / den: each component is rounded and
\* the one that moved most is recomputed from the other two
cubeRound(i, j, k, den) ==
    LET ri == RoundFraction(i, den)
        rj == RoundFraction(j, den)
        rk == RoundFraction(k, den)
        iDiff == Abs(ri * den - i)
        jDiff == Abs(rj * den - j)
        kDiff == Abs(rk * den - k)
    IN IF iDiff > jDiff /\ iDiff > kDiff THEN Ijk(-rj - rk, rj, rk)
       ELSE IF jDiff > kDiff THEN Ijk(ri, -ri - rk, rk)
       ELSE Ijk(ri, rj, -ri - rj)

LocalCoords ==
    { c \in [i : 0..MaxCoord, j : 0..MaxCoord, k : 0..MaxCoord] :
        c.i = 0 \/ c.j = 0 \/ c.k = 0 }

\* the cell of the patch at local coordinate ijk, H3_NULL-like 0 outside
localIjkToH3(ijk) ==
    IF ijk \in LocalCoords
    THEN 2 + ijk.i + LocalBase * ijk.j + LocalBase * LocalBase * ijk.k
    ELSE 0

LocalCells == { localIjkToH3(c) : c \in LocalCoords }

h3ToLocalIjkFails(h3) == h3 \notin LocalCells

h3ToLocalIjkOut(h3) == CHOOSE c \in LocalCoords : localIjkToH3(c) = h3

h3Distance(origin, h3) ==
    IF h3ToLocalIjkFails(origin) \/ h3ToLocalIjkFails(h3) THEN -1
    ELSE ijkDistance(h3ToLocalIjkOut(origin), h3ToLocalIjkOut(h3))

LineSlack == 2

LineIdle == [distance |-> 0, startIjk |-> Ijk(0, 0, 0), endIjk |-> Ijk(0, 0, 0),
             n |-> 0, returned |-> FALSE, ret |-> 0]

InitLine ==
    /\ pc = "call"
    /\ \E s \in LocalCells, e \in LocalCells \cup {FarCell} :
         arg = [op |-> "h3Line", start |-> s, end |-> e]
    /\ out = LineIdle @@ [buf |-> NewBuf(2 * MaxCoord + 1 + LineSlack, -1)]
    /\ CompactIdle

\* h3Line up to the loop
LineStart ==
    /\ pc = "call"
    /\ arg.op = "h3Line"
    /\ LET distance == h3Distance(arg.start, arg.end)
       IN IF distance < 0
          THEN /\ out' = [out EXCEPT !.distance = distance, !.returned = TRUE,
                                    !.ret = distance]
               /\ pc' = "done"
          ELSE /\ out' = [out EXCEPT
                            !.distance = distance,
                            !.startIjk = ijkToCube(h3ToLocalIjkOut(arg.start)),
                            !.endIjk = ijkToCube(h3ToLocalIjkOut(arg.end)),
                            !.n = 0]
               /\ pc' = "loop"
    /\ UNCHANGED <<arg, CompactVars>>

\* one iteration: the point start + step * n, rounded, as an index
LineIterate ==
    /\ pc = "loop"
    /\ out.n <= out.distance
    /\ LET den == IF out.distance = 0 THEN 1 ELSE out.distance
           s == out.startIjk
           e == out.endIjk
           currentIjk == cubeRound(s.i * den + (e.i - s.i) * out.n,
                                   s.j * den + (e.j - s.j) * out.n,
                                   s.k * den + (e.k - s.k) * out.n, den)
       IN out' = [out EXCEPT
                    !.buf = Write(out.buf, out.n, localIjkToH3(cubeToIjk(currentIjk))),
                    !.n = out.n + 1]
    /\ UNCHANGED <<pc, arg, CompactVars>>

LineReturn ==
    /\ pc = "loop"
    /\ out.n > out.distance
    /\ out' = [out EXCEPT !.returned = TRUE, !.ret = 0]
    /\ pc' = "done"
    /\ UNCHANGED <<arg, CompactVars>>

NextLine == LineStart \/ LineIterate \/ LineReturn

SpecLine == InitLine /\ [][NextLine]_vars

LineDone == pc = "done" /\ arg.op = "h3Line"

\* C17: when h3Line returns 0 it has written the slots 0..h3Distance and no
\* other, the first is start, the last is end and each index is at grid
\* distance 1 from the one before it; when h3Distance is negative h3Line
\* returns that value and writes nothing.
C17_Line ==
    LineDone =>
        LET d == h3Distance(arg.start, arg.end)
        IN /\ out.ret = 0 =>
                /\ d >= 0
                /\ out.buf.written = 0..d
                /\ \A x \in DOMAIN out.buf.mem : x > d => out.buf.mem[x] = -1
                /\ out.buf.mem[0] = arg.start
                /\ out.buf.mem[d] = arg.end
                /\ \A x \in 1..d :
                     /\ out.buf.mem[x] \in LocalCells
                     /\ ijkDistance(h3ToLocalIjkOut(out.buf.mem[x - 1]),
                                    h3ToLocalIjkOut(out.buf.mem[x])) = 1
           /\ d < 0 => (out.ret = d /\ out.buf.written = {}
                          /\ \A x \in DOMAIN out.buf.mem : out.buf.mem[x] = -1)
           /\ d >= 0 => out.ret = 0

\* a line of greatest length with a point half way between two cells
C17_Witness ==
    /\ LineDone
    /\ out.ret = 0
    /\ out.distance = 2 * MaxCoord
    /\ out.buf.mem[out.distance] = arg.end
    /\ \E x \in 1..(out.distance - 1) :
         /\ out.buf.mem[x] # arg.start
         /\ (2 * (out.endIjk.j - out.startIjk.j) * x) % (2 * out.distance)
               = out.distance

-----------------------------------------------------------------------------
(* h3ToLocalIjk and experimentalH3ToLocalIj.  The tables of base cell       *)
(* neighbours and of pentagon unfolding and the decoding of an index are    *)
(* not part of the sources: the direction between the two base cells, its   *)
(* reverse, the number of rotations, the table FAILED_DIRECTIONS and the    *)
(* coordinate that the decoding and the translation produce are inputs.     *)

RECURSIVE RotatePentCwFrom(_, _, _)
\* the loop of _h3RotatePent60cw, as that of _h3RotatePent60ccw
RotatePentCwFrom(h, r, found) ==
    IF r > H3_GET_RESOLUTION(h) THEN h
    ELSE LET h1 == H3_SET_INDEX_DIGIT(h, r, _rotate60cw(H3_GET_INDEX_DIGIT(h, r)))
         IN IF ~found /\ H3_GET_INDEX_DIGIT(h1, r) # 0
            THEN RotatePentCwFrom(
                    IF _h3LeadingNonZeroDigit(h1) = K_AXES_DIGIT
                    THEN _h3Rotate60cw(h1) ELSE h1,
                    r + 1, TRUE)
            ELSE RotatePentCwFrom(h1, r + 1, found)

_h3RotatePent60cw(h) == RotatePentCwFrom(h, 1, FALSE)

RECURSIVE RotateIntoOrigin(_, _, _, _)
\* the two rotation loops: the index and the reverse direction after
\* baseCellRotations clockwise turns
RotateIntoOrigin(h3, revDir, indexOnPent, baseCellRotations) ==
    IF baseCellRotations <= 0 THEN [h3 |-> h3, revDir |-> revDir]
    ELSE IF indexOnPent
         THEN RotateIntoOrigin(
                 _h3RotatePent60cw(h3),
                 IF _rotate60cw(revDir) = K_AXES_DIGIT
                 THEN _rotate60cw(_rotate60cw(revDir)) ELSE _rotate60cw(revDir),
                 indexOnPent, baseCellRotations - 1)
         ELSE RotateIntoOrigin(_h3Rotate60cw(h3), _rotate60cw(revDir),
                               indexOnPent, baseCellRotations - 1)

NoEntry == <<0, 0>>

LocalResult(code, prior, coord, consulted) ==
    [ret |-> code, out |-> IF code = 0 THEN coord ELSE prior,
     written |-> code = 0, consulted |-> consulted]

\* mutant: the base cell of the index is not tested
h3ToLocalIjk_OriginOnly(origin, h3, t, prior) ==
    IF H3_GET_RESOLUTION(origin) # H3_GET_RESOLUTION(h3)
          \/ H3_GET_BASE_CELL(origin) >= NUM_BASE_CELLS
    THEN LocalResult(1, prior, t.coord, NoEntry)
    ELSE LocalResult(0, prior, t.coord, NoEntry)

\* t holds what the missing tables and the decoding give for this call:
\* t.dir and t.revDir (_getBaseCellDirection), t.rots
\* (baseCellNeighbor60CCWRots), t.failed (FAILED_DIRECTIONS), t.coord
h3ToLocalIjk(origin, h3, t, prior) ==
    LET res == H3_GET_RESOLUTION(origin)
        originBaseCell == H3_GET_BASE_CELL(origin)
        baseCell == H3_GET_BASE_CELL(h3)
        dir == IF originBaseCell # baseCell THEN t.dir ELSE CENTER_DIGIT
        originOnPent == _isBaseCellPentagon(originBaseCell)
        indexOnPent == _isBaseCellPentagon(baseCell)
        turned == IF dir # CENTER_DIGIT
                  THEN RotateIntoOrigin(h3, t.revDir, indexOnPent, t.rots)
                  ELSE [h3 |-> h3, revDir |-> CENTER_DIGIT]
        originLeadingDigit == _h3LeadingNonZeroDigit(origin)
        indexLeadingDigit == _h3LeadingNonZeroDigit(turned.h3)
    IN IF res # H3_GET_RESOLUTION(h3) THEN LocalResult(1, prior, t.coord, NoEntry)
       ELSE IF originBaseCell < 0 \/ originBaseCell >= NUM_BASE_CELLS
       THEN LocalResult(1, prior, t.coord, NoEntry)
       ELSE IF baseCell < 0 \/ baseCell >= NUM_BASE_CELLS
       THEN LocalResult(1, prior, t.coord, NoEntry)
       ELSE IF dir = INVALID_DIGIT THEN LocalResult(2, prior, t.coord, NoEntry)
       ELSE IF dir # CENTER_DIGIT
       THEN IF originOnPent
            THEN LocalResult(IF t.failed[originLeadingDigit][dir] THEN 3 ELSE 0,
                             prior, t.coord, <<originLeadingDigit, dir>>)
            ELSE IF indexOnPent
            THEN LocalResult(
                    IF t.failed[indexLeadingDigit][turned.revDir] THEN 4 ELSE 0,
                    prior, t.coord, <<indexLeadingDigit, turned.revDir>>)
            ELSE LocalResult(0, prior, t.coord, NoEntry)
       ELSE IF originOnPent /\ indexOnPent
       THEN LocalResult(
               IF t.failed[originLeadingDigit][indexLeadingDigit] THEN 5 ELSE 0,
               prior, t.coord, <<originLeadingDigit, indexLeadingDigit>>)
       ELSE LocalResult(0, prior, t.coord, NoEntry)

ijkToIj(ijk) == [i |-> ijk.i - ijk.k, j |-> ijk.j - ijk.k]

experimentalH3ToLocalIj(origin, h3, t, prior) ==
    LET called == h3ToLocalIjk(origin, h3, t, Ijk(0, 0, 0))
    IN IF called.ret # 0
       THEN [ret |-> called.ret, out |-> prior, written |-> FALSE,
             consulted |-> called.consulted]
       ELSE [ret |-> 0, out |-> ijkToIj(called.out), written |-> TRUE,
             consulted |-> called.consulted]

\* 0x7fffffffffffffff
AllOnes ==
    [hi |-> 0, mode |-> 15, rsv |-> 7, res |-> MAX_H3_RES, bc |-> 127,
     dig |-> [r \in Digits |-> H3_DIGIT_MASK]]

MaxLocalRes == 2
MaxRots == 1

LocalPool ==
    { setH3Index(res, bc, d) :
        res \in 1..MaxLocalRes, bc \in {4, 14, 20, NUM_BASE_CELLS},
        d \in {CENTER_DIGIT, J_AXES_DIGIT, I_AXES_DIGIT} }
    \cup { H3_SET_RESOLUTION(AllOnes, 1), AllOnes }

FailedTables ==
    { [a \in 0..6 |-> [b \in 0..6 |-> FALSE]],
      [a \in 0..6 |-> [b \in 0..6 |->
          <<a, b>> \in { <<2, 4>>, <<2, 5>>, <<3, 4>>, <<3, 6>>, <<4, 2>>,
                         <<4, 3>>, <<5, 2>>, <<5, 6>>, <<6, 3>>, <<6, 5>> }]] }

\* what the tables can say about two base cells: two pentagons are never
\* neighbours, and no direction to or from a pentagon is K
TableAnswers(origin, h3) ==
    { t \in [dir : {J_AXES_DIGIT, I_AXES_DIGIT, INVALID_DIGIT},
             revDir : {J_AXES_DIGIT, IK_AXES_DIGIT},
             rots : 0..MaxRots,
             failed : FailedTables,
             coord : {Ijk(2, 0, 1)}] :
        (_isBaseCellPentagon(H3_GET_BASE_CELL(origin))
           /\ _isBaseCellPentagon(H3_GET_BASE_CELL(h3))) => t.dir = INVALID_DIGIT }

PriorIjk == Ijk(-7, -7, -7)
PriorIj == [i |-> -7, j |-> -7]

InitLocal ==
    /\ pc = "call"
    /\ \E o \in LocalPool, h \in LocalPool :
       \E t \in TableAnswers(o, h) :
       \E op \in {"h3ToLocalIjk", "experimentalH3ToLocalIj"} :
          arg = [op |-> op, origin |-> o, h3 |-> h, t |-> t]
    /\ out = [ret |-> 0, out |-> IF arg.op = "h3ToLocalIjk" THEN PriorIjk ELSE PriorIj,
              written |-> FALSE, consulted |-> NoEntry]
    /\ CompactIdle

CallH3ToLocalIjk ==
    /\ pc = "call"
    /\ arg.op = "h3ToLocalIjk"
    /\ out' = h3ToLocalIjk(arg.origin, arg.h3, arg.t, out.out)
    /\ pc' = "done"
    /\ UNCHANGED <<arg, CompactVars>>

CallExperimentalH3ToLocalIj ==
    /\ pc = "call"
    /\ arg.op = "experimentalH3ToLocalIj"
    /\ out' = experimentalH3ToLocalIj(arg.origin, arg.h3, arg.t, out.out)
    /\ pc' = "done"
    /\ UNCHANGED <<arg, CompactVars>>

NextLocal == CallH3ToLocalIjk \/ CallExperimentalH3ToLocalIj

SpecLocal == InitLocal /\ [][NextLocal]_vars

LocalDone == pc = "done" /\ arg.op \in {"h3ToLocalIjk", "experimentalH3ToLocalIj"}

\* the first test of h3ToLocalIjk
LocalMismatch ==
    \/ arg.origin.res # arg.h3.res
    \/ arg.origin.bc >= NUM_BASE_CELLS
    \/ arg.h3.bc >= NUM_BASE_CELLS

LocalNotNeighbors ==
    arg.origin.bc # arg.h3.bc /\ arg.t.dir = INVALID_DIGIT

\* C18: the code is 1 exactly when the resolutions differ or a base cell
\* field is 122 or more; otherwise 2 exactly when the base cells differ and
\* are not neighbours; 3, 4, 5 only in the case of an origin on a pentagon,
\* of an index on a pentagon and of one pentagon base cell for both, and only
\* when the entry of FAILED_DIRECTIONS that was read is set; otherwise 0.
\* The output is written exactly on code 0, and experimentalH3ToLocalIj
\* returns the code of h3ToLocalIjk.
C18_LocalIjkCodes ==
    LocalDone =>
        /\ out.ret \in 0..5
        /\ out.ret = 1 <=> LocalMismatch
        /\ out.ret = 2 <=> (~LocalMismatch /\ LocalNotNeighbors)
        /\ out.ret = 3 =>
             (arg.origin.bc # arg.h3.bc /\ _isBaseCellPentagon(arg.origin.bc))
        /\ out.ret = 4 =>
             (arg.origin.bc # arg.h3.bc /\ _isBaseCellPentagon(arg.h3.bc)
                /\ ~_isBaseCellPentagon(arg.origin.bc))
        /\ out.ret = 5 =>
             (arg.origin.bc = arg.h3.bc /\ _isBaseCellPentagon(arg.origin.bc))
        /\ out.ret \in 3..5 <=>
             (~LocalMismatch /\ ~LocalNotNeighbors /\ out.consulted # NoEntry
                /\ arg.t.failed[out.consulted[1]][out.consulted[2]])
        /\ out.written <=> out.ret = 0
        /\ out.ret # 0 => out.out \in {PriorIjk, PriorIj}
        /\ out.ret = 0 =>
             out.out = IF arg.op = "h3ToLocalIjk" THEN arg.t.coord
                       ELSE ijkToIj(arg.t.coord)
        /\ out.ret = h3ToLocalIjk(arg.origin, arg.h3, arg.t, PriorIjk).ret

\* experimentalH3ToLocalIj fails with code 4 after the index was turned
C18_Witness ==
    /\ LocalDone
    /\ arg.op = "experimentalH3ToLocalIj"
    /\ out.ret = 4
    /\ arg.t.rots > 0
    /\ ~out.written

-----------------------------------------------------------------------------
(* h3ToString and stringToH3.  A 64-bit value is the sequence of its 16     *)
(* hexadecimal digits, most significant first; a character is its code, a   *)
(* string is an array of characters up to the first zero.                   *)

NUL == 0
WordDigits == 16

\* the character sprintf prints for a digit under %x
HexChar(d) == IF d < 10 THEN 48 + d ELSE 97 + (d - 10)

\* the digit sscanf reads from a character under %x, -1 if it is none
HexValue(c) ==
    IF c \in 48..57 THEN c - 48
    ELSE IF c \in 97..102 THEN c - 97 + 10
    ELSE IF c \in 65..70 THEN c - 65 + 10
    ELSE -1

RECURSIVE Significant(_)
\* the digits of h without the leading zeroes, one zero for the value 0
Significant(h) ==
    IF Len(h) > 1 /\ Head(h) = 0 THEN Significant(Tail(h)) ELSE h

\* mutant: the digits are padded to the full width
FormatPRIx64_Padded(h) == [i \in 1..Len(h) |-> HexChar(h[i])] \o <<NUL>>

\* the characters sprintf(str, "%" PRIx64, h) stores, terminator included
FormatPRIx64(h) ==
    [i \in 1..Len(Significant(h)) |-> HexChar(Significant(h)[i])] \o <<NUL>>

RECURSIVE WriteChars(_, _, _)
WriteChars(str, s, at) ==
    IF s = <<>> THEN str
    ELSE WriteChars(Write(str, at, Head(s)), Tail(s), at + 1)

\* mutant: a short buffer is ended at its start
h3ToString_Empties(h, str, sz) ==
    IF sz < 17 THEN Write(str, 0, NUL) ELSE WriteChars(str, FormatPRIx64(h), 0)

h3ToString(h, str, sz) ==
    IF sz < 17 THEN str ELSE WriteChars(str, FormatPRIx64(h), 0)

RECURSIVE CString(_, _)
\* the string that starts at slot i of the array
CString(mem, i) ==
    IF i \notin DOMAIN mem \/ mem[i] = NUL THEN <<>>
    ELSE <<mem[i]>> \o CString(mem, i + 1)

RECURSIVE HexPrefix(_)
\* the longest run of hexadecimal digits at the start of s, as values
HexPrefix(s) ==
    IF s = <<>> \/ HexValue(Head(s)) < 0 THEN <<>>
    ELSE <<HexValue(Head(s))>> \o HexPrefix(Tail(s))

\* an optional 0x or 0X before a digit is skipped
SkipRadix(s) ==
    IF Len(s) >= 3 /\ s[1] = 48 /\ s[2] \in {120, 88} /\ HexValue(s[3]) >= 0
    THEN SubSeq(s, 3, Len(s)) ELSE s

\* the value of at most 16 digits as a 64-bit word
WordOf(ds) == [i \in 1..(WordDigits - Len(ds)) |-> 0] \o ds

ZeroWord == [i \in 1..WordDigits |-> 0]

\* sscanf(str, "%" PRIx64, &h) on a string without blanks or sign and with
\* at most 16 digits; h stays H3_NULL when no digit is read
stringToH3(s) ==
    LET ds == HexPrefix(SkipRadix(s))
    IN IF ds = <<>> THEN ZeroWord
       ELSE WordOf(SubSeq(ds, Max(1, Len(ds) - WordDigits + 1), Len(ds)))

StringSlots == 19

\* a word of len significant digits that alternate a and b
PatternWord(len, a, b) ==
    [i \in 1..WordDigits |->
        IF i <= WordDigits - len THEN 0
        ELSE IF (i - (WordDigits - len)) % 2 = 1 THEN a ELSE b]

SampleWords ==
    { PatternWord(len, a, b) :
        len \in {0, 1, 4, WordDigits - 1, WordDigits},
        a \in {1, 12, 15}, b \in {0, 10, 15} }

\* buffers as the caller may hand them over: zeroed, holding text, holding
\* one digit
PriorBuffers ==
    { [mem |-> [i \in 0..(StringSlots - 1) |->
                  IF i = StringSlots - 1 THEN NUL
                  ELSE IF i < n THEN c ELSE NUL],
       written |-> {}] : n \in {0, 1, StringSlots - 1}, c \in {55, 122} }

BufferSizes == {0, 16, 17, 18}

InitString ==
    /\ pc = "call"
    /\ \E h \in SampleWords, sz \in BufferSizes, b \in PriorBuffers :
         arg = [op |-> "h3ToString", h |-> h, sz |-> sz, str |-> b]
    /\ out = [str |-> arg.str, h |-> ZeroWord]
    /\ CompactIdle

CallH3ToString ==
    /\ pc = "call"
    /\ arg.op = "h3ToString"
    /\ out' = [out EXCEPT !.str = h3ToString(arg.h, out.str, arg.sz)]
    /\ pc' = "written"
    /\ UNCHANGED <<arg, CompactVars>>

CallStringToH3 ==
    /\ pc = "written"
    /\ out' = [out EXCEPT !.h = stringToH3(CString(out.str.mem, 0))]
    /\ pc' = "done"
    /\ UNCHANGED <<arg, CompactVars>>

NextString == CallH3ToString \/ CallStringToH3

SpecString == InitString /\ [][NextString]_vars

StringWritten == arg.op = "h3ToString" /\ pc \in {"written", "done"}

\* the claim as stated: a short buffer holds the empty string afterwards
C19_Original ==
    (StringWritten /\ arg.sz < 17) => CString(out.str.mem, 0) = <<>>

\* C19: h3ToString with a buffer size below 17 writes nothing: the buffer
\* keeps its prior content for every index, so it holds the empty string
\* afterwards exactly when it did before.
C19_ShortBuffer ==
    (StringWritten /\ arg.sz < 17) =>
        /\ out.str = arg.str
        /\ out.str.written = {}
        /\ CString(out.str.mem, 0) = <<>> <=> CString(arg.str.mem, 0) = <<>>

C19_Witness ==
    /\ StringWritten
    /\ arg.sz = 16
    /\ arg.h # ZeroWord
    /\ CString(arg.str.mem, 0) # <<>>
    /\ CString(out.str.mem, 0) = CString(arg.str.mem, 0)

\* C20: with a buffer of 17 bytes h3ToString stores the hexadecimal digits
\* of h in lower case, without padding or prefix, then a terminator; it
\* writes at most 17 bytes, all inside the buffer, and stringToH3 of the
\* stored string is h.
C20_StringRoundTrip ==
    (StringWritten /\ arg.sz = 17) =>
        LET s == CString(out.str.mem, 0)
        IN /\ Len(s) \in 1..WordDigits
           /\ out.str.written = 0..Len(s)
           /\ out.str.mem[Len(s)] = NUL
           /\ \A i \in (Len(s) + 1)..(StringSlots - 1) :
                out.str.mem[i] = arg.str.mem[i]
           /\ \A i \in 1..Len(s) : s[i] \in (48..57) \cup (97..102)
           /\ Len(s) > 1 => s[1] # 48
           /\ \A i \in 1..Len(s) :
                HexValue(s[i]) = arg.h[WordDigits - Len(s) + i]
           /\ \A i \in 1..(WordDigits - Len(s)) : arg.h[i] = 0
           /\ pc = "done" => out.h = arg.h

C20_Witness ==
    /\ StringWritten
    /\ pc = "done"
    /\ arg.sz = 17
    /\ Len(CString(out.str.mem, 0)) = 4
    /\ out.str.mem[0] = 99
    /\ out.str.mem[1] = 97
    /\ CString(arg.str.mem, 0) # <<>>
    /\ out.h = arg.h

-----------------------------------------------------------------------------
(* stringToH3 on arbitrary short strings without blanks or sign *)

MaxStrLen == 3

\* the characters 0, 1, a, F, x, z and *
SampleChars == {48, 49, 97, 70, 120, 122, 42}

SampleStrings == UNION { [1..n -> SampleChars] : n \in 0..MaxStrLen }

InitParse ==
    /\ pc = "call"
    /\ \E s \in SampleStrings : arg = [op |-> "stringToH3", str |-> s]
    /\ out = ZeroWord
    /\ CompactIdle

CallStringToH3Direct ==
    /\ pc = "call"
    /\ arg.op = "stringToH3"
    /\ out' = stringToH3(arg.str)
    /\ pc' = "done"
    /\ UNCHANGED <<arg, CompactVars>>

NextParse == CallStringToH3Direct

SpecParse == InitParse /\ [][NextParse]_vars

ParseDone == pc = "done" /\ arg.op = "stringToH3"

NotHexNumber(s) == s = <<>> \/ \E i \in 1..Len(s) : HexValue(s[i]) < 0

\* C21: stringToH3 returns H3_NULL for the empty string and for every string
\* that holds a character that is not a hexadecimal digit.
C21_RejectsNonHex ==
    (ParseDone /\ NotHexNumber(arg.str)) => out = ZeroWord

\* what the code does: the result is the value of the hexadecimal digits the
\* string starts with, so only a string that starts with no digit gives H3_NULL
C21_PrefixParsed ==
    ParseDone =>
        /\ (arg.str = <<>> \/ HexValue(arg.str[1]) < 0) => out = ZeroWord
        /\ (Len(arg.str) >= 2 /\ HexValue(arg.str[1]) > 0
              /\ HexValue(arg.str[2]) < 0) =>
             out = WordOf(<<HexValue(arg.str[1])>>)

\* "1z" is read as 1
C21_Witness ==
    /\ ParseDone
    /\ arg.str = <<49, 122>>
    /\ out = WordOf(<<1>>)

-----------------------------------------------------------------------------
(* getPentagonIndexes.  The loop starts at base cell -1, whose entry of the *)
(* base cell table lies before the table: what _isBaseCellPentagon reads    *)
(* there is not determined, and the model takes it as an input.             *)

PentagonSlots == 12

\* _isBaseCellPentagon as the loop sees it; wild is the answer for -1
IsPentagonRead(bc, wild) ==
    IF bc \in 0..(NUM_BASE_CELLS - 1) THEN _isBaseCellPentagon(bc) ELSE wild

InitPentagons ==
    /\ pc = "loop"
    /\ \E res \in 0..MAX_H3_RES, f \in Fills, wild \in BOOLEAN :
         arg = [op |-> "getPentagonIndexes", res |-> res, wild |-> wild,
                prior |-> NewBuf(PentagonSlots, f)]
    /\ out = [buf |-> arg.prior, i |-> -1, bc |-> -1, consulted |-> {}]
    /\ CompactIdle

\* one iteration of for (int bc = -1; bc < NUM_BASE_CELLS; bc++)
PentagonsIterate ==
    /\ pc = "loop"
    /\ arg.op = "getPentagonIndexes"
    /\ out.bc < NUM_BASE_CELLS
    /\ out' = IF IsPentagonRead(out.bc, arg.wild)
              THEN [buf |-> Write(out.buf, out.i, setH3Index(arg.res, out.bc, 0)),
                    i |-> out.i + 1, bc |-> out.bc + 1,
                    consulted |-> out.consulted \cup {out.bc}]
              ELSE [out EXCEPT !.bc = out.bc + 1,
                               !.consulted = out.consulted \cup {out.bc}]
    /\ UNCHANGED <<pc, arg, CompactVars>>

PentagonsReturn ==
    /\ pc = "loop"
    /\ arg.op = "getPentagonIndexes"
    /\ out.bc >= NUM_BASE_CELLS
    /\ pc' = "done"
    /\ UNCHANGED <<arg, out, CompactVars>>

NextPentagons == PentagonsIterate \/ PentagonsReturn

SpecPentagons == InitPentagons /\ [][NextPentagons]_vars

PentagonsDone == pc = "done" /\ arg.op = "getPentagonIndexes"

\* the k-th pentagon base cell in increasing order, k from 0
NthPentagon(k) ==
    CHOOSE bc \in PentagonBaseCells :
        Cardinality({ b \in PentagonBaseCells : b < bc }) = k

\* C22: getPentagonIndexes writes the slots 0..11 and no other, slot k holds
\* the cell at resolution res with all digits CENTER on the k-th pentagon
\* base cell in increasing order, and only the base cells 0..121 are
\* consulted.
C22_PentagonIndexes ==
    PentagonsDone =>
        /\ out.buf.written = 0..(PentagonSlots - 1)
        /\ \A k \in 0..(PentagonSlots - 1) :
             out.buf.mem[k] = setH3Index(arg.res, NthPentagon(k), 0)
        /\ out.consulted = 0..(NUM_BASE_CELLS - 1)

\* what the code does: base cell -1 is consulted and slot -1, before the
\* array, is written
C22_WritesBeforeArray ==
    PentagonsDone =>
        /\ -1 \in out.consulted
        /\ -1 \in out.buf.written
        /\ ~arg.wild =>
             /\ out.buf.written = (-1)..(PentagonSlots - 2)
             /\ out.buf.mem[PentagonSlots - 1] = arg.prior.mem[PentagonSlots - 1]
             /\ \A k \in 0..(PentagonSlots - 2) :
                  out.buf.mem[k] = setH3Index(arg.res, NthPentagon(k + 1), 0)

C22_Witness ==
    /\ PentagonsDone
    /\ ~arg.wild
    /\ arg.res = 2
    /\ out.buf.mem[0] = setH3Index(2, 14, 0)
    /\ out.buf.mem[PentagonSlots - 1] = JunkCell

-----------------------------------------------------------------------------
(* bboxContains.  Angles are points of an integer grid; the comparisons of  *)
(* the code are those of the order of the grid.                             *)

MaxLat == 1
MaxLon == 2

\* east < west: the box crosses the antimeridian
bboxIsTransmeridian(bbox) == bbox.east < bbox.west

\* mutant: the bounds are exclusive
bboxContains_Strict(bbox, point) ==
    /\ point.lat > bbox.south
    /\ point.lat < bbox.north
    /\ IF bboxIsTransmeridian(bbox)
       THEN point.lon > bbox.west \/ point.lon < bbox.east
       ELSE point.lon > bbox.west /\ point.lon < bbox.east

bboxContains(bbox, point) ==
    /\ point.lat >= bbox.south
    /\ point.lat <= bbox.north
    /\ IF bboxIsTransmeridian(bbox)
       THEN point.lon >= bbox.west \/ point.lon <= bbox.east
       ELSE point.lon >= bbox.west /\ point.lon <= bbox.east

InitBBox ==
    /\ pc = "call"
    /\ \E b \in [north : (-MaxLat)..MaxLat, south : (-MaxLat)..MaxLat,
                 east : (-MaxLon)..MaxLon, west : (-MaxLon)..MaxLon],
          p \in [lat : (-MaxLat)..MaxLat, lon : (-MaxLon)..MaxLon] :
         arg = [op |-> "bboxContains", bbox |-> b, point |-> p]
    /\ out = FALSE
    /\ CompactIdle

CallBboxContains ==
    /\ pc = "call"
    /\ arg.op = "bboxContains"
    /\ out' = bboxContains(arg.bbox, arg.point)
    /\ pc' = "done"
    /\ UNCHANGED <<arg, CompactVars>>

NextBBox == CallBboxContains

SpecBBox == InitBBox /\ [][NextBBox]_vars

BBoxDone == pc = "done" /\ arg.op = "bboxContains"

\* the longitudes a box covers, walking east from its west bound and
\* wrapping from MaxLon to -MaxLon
LonsCovered(b) ==
    IF b.east < b.west
    THEN (b.west..MaxLon) \cup ((-MaxLon)..b.east)
    ELSE b.west..b.east

\* C23: bboxContains is true exactly when the latitude lies in
\* [south, north] and the longitude lies in [west, east], or, for a box with
\* east < west, at or beyond west or at or before east; the bounds are
\* inclusive, so a point on the antimeridian is in every box that crosses it.
C23_BBoxContains ==
    BBoxDone =>
        /\ out <=> (arg.point.lat \in arg.bbox.south..arg.bbox.north
                      /\ arg.point.lon \in LonsCovered(arg.bbox))
        /\ (arg.bbox.east < arg.bbox.west /\ arg.point.lon \in {MaxLon, -MaxLon}
              /\ arg.point.lat \in arg.bbox.south..arg.bbox.north) => out

\* a point on the antimeridian and on the north bound of a box that crosses
C23_Witness ==
    /\ BBoxDone
    /\ out
    /\ arg.bbox.east < arg.bbox.west
    /\ arg.bbox.west < MaxLon
    /\ arg.point.lon = MaxLon
    /\ arg.point.lat = arg.bbox.north

-----------------------------------------------------------------------------
(* The aperture 7 moves of coordijk.c and the digit loop of _faceIjkToH3 *)

MaxIjk == 3
MaxStepCoord == 5

_ijkScale(c, factor) == Ijk(c.i * factor, c.j * factor, c.k * factor)

_ijkAdd(h1, h2) == Ijk(h1.i + h2.i, h1.j + h2.j, h1.k + h2.k)

\* mutant: the unit vectors of the clockwise grid
_downAp7_Clockwise(ijk) ==
    IjkNormalized(_ijkAdd(_ijkAdd(_ijkScale(Ijk(3, 1, 0), ijk.i),
                                  _ijkScale(Ijk(0, 3, 1), ijk.j)),
                          _ijkScale(Ijk(1, 0, 3), ijk.k)))

_downAp7(ijk) ==
    LET iVec == _ijkScale(Ijk(3, 0, 1), ijk.i)
        jVec == _ijkScale(Ijk(1, 3, 0), ijk.j)
        kVec == _ijkScale(Ijk(0, 1, 3), ijk.k)
    IN IjkNormalized(_ijkAdd(_ijkAdd(iVec, jVec), kVec))

_downAp7r(ijk) ==
    LET iVec == _ijkScale(Ijk(3, 1, 0), ijk.i)
        jVec == _ijkScale(Ijk(0, 3, 1), ijk.j)
        kVec == _ijkScale(Ijk(1, 0, 3), ijk.k)
    IN IjkNormalized(_ijkAdd(_ijkAdd(iVec, jVec), kVec))

\* mutant: the quotient is truncated, not rounded
_upAp7_Truncated(ijk) ==
    LET i == ijk.i - ijk.k
        j == ijk.j - ijk.k
        Trunc(n) == IF n >= 0 THEN n \div 7 ELSE -((-n) \div 7)
    IN IjkNormalized(Ijk(Trunc(3 * i - j), Trunc(i + 2 * j), 0))

\* lroundl(x / 7.0L) is x / 7 rounded to the nearest integer
_upAp7(ijk) ==
    LET i == ijk.i - ijk.k
        j == ijk.j - ijk.k
    IN IjkNormalized(Ijk(RoundFraction(3 * i - j, 7),
                         RoundFraction(i + 2 * j, 7), 0))

_upAp7r(ijk) ==
    LET i == ijk.i - ijk.k
        j == ijk.j - ijk.k
    IN IjkNormalized(Ijk(RoundFraction(2 * i + j, 7),
                         RoundFraction(3 * j - i, 7), 0))

UnitIjk(d) == Ijk(UNIT_VECS[d][1], UNIT_VECS[d][2], UNIT_VECS[d][3])

_unitIjkToDigit(ijk) ==
    LET c == IjkNormalized(ijk)
        hits == { d \in CENTER_DIGIT..(NUM_DIGITS - 1) : UnitIjk(d) = c }
    IN IF hits = {} THEN INVALID_DIGIT ELSE Least(hits)

\* one iteration of the digit loop of _faceIjkToH3: the parent coordinate
\* and the digit written at position r + 1
DigitStep(ijk, classIII) ==
    LET lastIJK == ijk
        up == IF classIII THEN _upAp7(ijk) ELSE _upAp7r(ijk)
        lastCenter == IF classIII THEN _downAp7(up) ELSE _downAp7r(up)
        diff == IjkNormalized(Ijk(lastIJK.i - lastCenter.i,
                                  lastIJK.j - lastCenter.j,
                                  lastIJK.k - lastCenter.k))
    IN [ijk |-> up, diff |-> diff, digit |-> _unitIjkToDigit(diff)]

AnyCoords == [i : 0..MaxIjk, j : 0..MaxIjk, k : 0..MaxIjk]

FaceCoords ==
    { c \in [i : 0..MaxStepCoord, j : 0..MaxStepCoord, k : 0..MaxStepCoord] :
        c.i = 0 \/ c.j = 0 \/ c.k = 0 }

NoStep == [ijk |-> Ijk(0, 0, 0), diff |-> Ijk(0, 0, 0), digit |-> 0]

InitAperture ==
    /\ pc = "call"
    /\ \/ \E c \in AnyCoords, op \in {"_downAp7", "_downAp7r"} :
            arg = [op |-> op, ijk |-> c, classIII |-> op = "_downAp7"]
       \/ \E c \in FaceCoords, op \in {"digit", "upDown"}, cl \in BOOLEAN :
            arg = [op |-> op, ijk |-> c, classIII |-> cl]
    /\ out = NoStep
    /\ CompactIdle

CallDownAp7 ==
    /\ pc = "call"
    /\ arg.op = "_downAp7"
    /\ out' = [NoStep EXCEPT !.ijk = _downAp7(arg.ijk)]
    /\ pc' = "done"
    /\ UNCHANGED <<arg, CompactVars>>

CallDownAp7r ==
    /\ pc = "call"
    /\ arg.op = "_downAp7r"
    /\ out' = [NoStep EXCEPT !.ijk = _downAp7r(arg.ijk)]
    /\ pc' = "done"
    /\ UNCHANGED <<arg, CompactVars>>

\* for (r = res - 1; r >= 0; r--) { ... }, one iteration
EncodeDigitStep ==
    /\ pc = "call"
    /\ arg.op = "digit"
    /\ out' = DigitStep(arg.ijk, arg.classIII)
    /\ pc' = "done"
    /\ UNCHANGED <<arg, CompactVars>>

\* down to the finer grid and up again
CallUpOfDown ==
    /\ pc = "call"
    /\ arg.op = "upDown"
    /\ out' = [NoStep EXCEPT
                 !.ijk = IF arg.classIII THEN _upAp7(_downAp7(arg.ijk))
                         ELSE _upAp7r(_downAp7r(arg.ijk))]
    /\ pc' = "done"
    /\ UNCHANGED <<arg, CompactVars>>

NextAperture ==
    \/ CallDownAp7
    \/ CallDownAp7r
    \/ EncodeDigitStep
    \/ CallUpOfDown

SpecAperture == InitAperture /\ [][NextAperture]_vars

\* normalize(i * a + j * b + k * c)
Combination(ijk, a, b, c) ==
    LET s == Ijk(ijk.i * a[1] + ijk.j * b[1] + ijk.k * c[1],
                 ijk.i * a[2] + ijk.j * b[2] + ijk.k * c[2],
                 ijk.i * a[3] + ijk.j * b[3] + ijk.k * c[3])
        m == Min3(s.i, s.j, s.k)
    IN Ijk(s.i - m, s.j - m, s.k - m)

DownDone == pc = "done" /\ arg.op \in {"_downAp7", "_downAp7r"}

\* the claim as stated: (3,1,0), (0,3,1), (1,0,3) for _downAp7 and
\* (3,0,1), (1,3,0), (0,1,3) for _downAp7r
C24_Original ==
    DownDone =>
        out.ijk = IF arg.op = "_downAp7"
                  THEN Combination(arg.ijk, <<3, 1, 0>>, <<0, 3, 1>>, <<1, 0, 3>>)
                  ELSE Combination(arg.ijk, <<3, 0, 1>>, <<1, 3, 0>>, <<0, 1, 3>>)

\* C24: _downAp7 maps (i, j, k) to normalize(i*(3,0,1) + j*(1,3,0) +
\* k*(0,1,3)) and _downAp7r maps it to normalize(i*(3,1,0) + j*(0,3,1) +
\* k*(1,0,3)): these vectors are the images of the i, j and k unit vectors.
C24_DownAp7Vectors ==
    DownDone =>
        out.ijk = IF arg.op = "_downAp7"
                  THEN Combination(arg.ijk, <<3, 0, 1>>, <<1, 3, 0>>, <<0, 1, 3>>)
                  ELSE Combination(arg.ijk, <<3, 1, 0>>, <<0, 3, 1>>, <<1, 0, 3>>)

\* the image of the i unit vector under _downAp7
C24_Witness ==
    /\ DownDone
    /\ arg.op = "_downAp7"
    /\ arg.ijk = Ijk(1, 0, 0)
    /\ out.ijk = Ijk(3, 0, 1)

ApertureDone == pc = "done" /\ arg.op \in {"digit", "upDown"}

\* C25: for a normalized coordinate y the offset of y from the centre of
\* its parent, y - _downAp7(_upAp7(y)) or y - _downAp7r(_upAp7r(y)),
\* normalizes to a unit vector, so the digit written by the loop of
\* _faceIjkToH3 is in 0..6 and never INVALID_DIGIT; and going down and up
\* again gives back a normalized coordinate.
C25_DigitOffsets ==
    ApertureDone =>
        /\ arg.op = "digit" =>
             /\ out.digit \in 0..6
             /\ out.digit # INVALID_DIGIT
             /\ out.diff = UnitIjk(out.digit)
             /\ arg.ijk =
                  IjkNormalized(_ijkAdd(IF arg.classIII THEN _downAp7(out.ijk)
                                        ELSE _downAp7r(out.ijk), out.diff))
        /\ arg.op = "upDown" => out.ijk = arg.ijk

C25_Witness ==
    /\ ApertureDone
    /\ arg.op = "digit"
    /\ ~arg.classIII
    /\ out.digit = IK_AXES_DIGIT
    /\ out.ijk # Ijk(0, 0, 0)

-----------------------------------------------------------------------------
(* Rotations by 60 degrees, of digits and of coordinates *)

\* the rotations of 60 degrees in a full turn: one per non-centre digit
FullTurn == NUM_DIGITS - 1

\* mutant: the counter-clockwise rotation turns clockwise
_ijkRotate60ccw_Clockwise(ijk) ==
    IjkNormalized(_ijkAdd(_ijkAdd(_ijkScale(Ijk(1, 0, 1), ijk.i),
                                  _ijkScale(Ijk(1, 1, 0), ijk.j)),
                          _ijkScale(Ijk(0, 1, 1), ijk.k)))

_ijkRotate60ccw(ijk) ==
    LET iVec == _ijkScale(Ijk(1, 1, 0), ijk.i)
        jVec == _ijkScale(Ijk(0, 1, 1), ijk.j)
        kVec == _ijkScale(Ijk(1, 0, 1), ijk.k)
    IN IjkNormalized(_ijkAdd(_ijkAdd(iVec, jVec), kVec))

_ijkRotate60cw(ijk) ==
    LET iVec == _ijkScale(Ijk(1, 0, 1), ijk.i)
        jVec == _ijkScale(Ijk(1, 1, 0), ijk.j)
        kVec == _ijkScale(Ijk(0, 1, 1), ijk.k)
    IN IjkNormalized(_ijkAdd(_ijkAdd(iVec, jVec), kVec))

\* the unit vector of a digit; the invalid digit 7 has none
DigitVector(d) == IF d < NUM_DIGITS THEN UnitIjk(d) ELSE Ijk(0, 0, 0)

RotateCoords == { c \in AnyCoords : c.i = 0 \/ c.j = 0 \/ c.k = 0 }

InitRotate ==
    /\ pc = "turn"
    /\ \E d \in 0..INVALID_DIGIT, c \in RotateCoords, ccw \in BOOLEAN :
         arg = [op |-> "rotate", digit |-> d, ijk |-> c, ccw |-> ccw]
    /\ out = [digit |-> arg.digit, unit |-> DigitVector(arg.digit),
              ijk |-> arg.ijk, n |-> 0]
    /\ CompactIdle

\* one more counter-clockwise rotation of the digit, its vector and ijk
RotateCcw ==
    /\ pc = "turn"
    /\ arg.op = "rotate"
    /\ arg.ccw
    /\ out.n < FullTurn
    /\ out' = [digit |-> _rotate60ccw(out.digit),
               unit |-> _ijkRotate60ccw(out.unit),
               ijk |-> _ijkRotate60ccw(out.ijk), n |-> out.n + 1]
    /\ UNCHANGED <<pc, arg, CompactVars>>

RotateCw ==
    /\ pc = "turn"
    /\ arg.op = "rotate"
    /\ ~arg.ccw
    /\ out.n < FullTurn
    /\ out' = [digit |-> _rotate60cw(out.digit),
               unit |-> _ijkRotate60cw(out.unit),
               ijk |-> _ijkRotate60cw(out.ijk), n |-> out.n + 1]
    /\ UNCHANGED <<pc, arg, CompactVars>>

NextRotate == RotateCcw \/ RotateCw

SpecRotate == InitRotate /\ [][NextRotate]_vars

\* the counter-clockwise cycle K -> IK -> I -> IJ -> J -> JK -> K
CcwNext ==
    [d \in 0..INVALID_DIGIT |->
        CASE d = K_AXES_DIGIT -> IK_AXES_DIGIT
          [] d = IK_AXES_DIGIT -> I_AXES_DIGIT
          [] d = I_AXES_DIGIT -> IJ_AXES_DIGIT
          [] d = IJ_AXES_DIGIT -> J_AXES_DIGIT
          [] d = J_AXES_DIGIT -> JK_AXES_DIGIT
          [] d = JK_AXES_DIGIT -> K_AXES_DIGIT
          [] OTHER -> d]

RECURSIVE Times(_, _, _)
\* f applied n times to d
Times(f, n, d) == IF n = 0 THEN d ELSE Times(f, n - 1, f[d])

\* C26: _rotate60ccw follows the cycle K, IK, I, IJ, J, JK and leaves CENTER
\* and 7 alone; _rotate60cw is its inverse on 0..7; six rotations either way
\* are the identity; and the digit of the rotated unit vector is the rotated
\* digit, for both directions.
C26_Rotations ==
    arg.op = "rotate" =>
        /\ _rotate60ccw(out.digit) = CcwNext[out.digit]
        /\ _rotate60cw(_rotate60ccw(out.digit)) = out.digit
        /\ _rotate60ccw(_rotate60cw(out.digit)) = out.digit
        /\ arg.ccw => out.digit = Times(CcwNext, out.n, arg.digit)
        /\ ~arg.ccw =>
             Times(CcwNext, out.n, out.digit) = arg.digit
        /\ arg.digit \in {CENTER_DIGIT, INVALID_DIGIT} => out.digit = arg.digit
        /\ out.n = FullTurn => (out.digit = arg.digit /\ out.ijk = arg.ijk)
        /\ arg.digit \in 1..6 =>
             /\ out.digit \in 1..6
             /\ _unitIjkToDigit(out.unit) = out.digit
             /\ out.n \in 1..(FullTurn - 1) => out.digit # arg.digit

\* IJ turned twice clockwise is IK, as digit and as vector
C26_Witness ==
    /\ arg.op = "rotate"
    /\ ~arg.ccw
    /\ arg.digit = IJ_AXES_DIGIT
    /\ out.n = 2
    /\ out.digit = IK_AXES_DIGIT
    /\ out.unit = Ijk(1, 0, 1)

-----------------------------------------------------------------------------
(* _adjustOverageClassII and _adjustPentVertOverage.  The tables            *)
(* maxDimByCIIres, unitScaleByCIIres and faceNeighbors are not part of the  *)
(* sources: their entries for the call are inputs.  A FaceIJK is a record   *)
(* [face, coord].                                                           *)

NO_OVERAGE == 0
FACE_EDGE == 1
NEW_FACE == 2

MaxOverCoord == 6
MaxAdjust == 3

Sum(ijk) == ijk.i + ijk.j + ijk.k

RECURSIVE RotateCcwTimes(_, _)
\* for (i = 0; i < ccwRot60; i++) _ijkRotate60ccw(ijk)
RotateCcwTimes(ijk, n) ==
    IF n <= 0 THEN ijk ELSE RotateCcwTimes(_ijkRotate60ccw(ijk), n - 1)

\* the quadrant the coordinate left the face through
OverageQuadrant(ijk) ==
    IF ijk.k > 0 THEN (IF ijk.j > 0 THEN "JK" ELSE "KI") ELSE "IJ"

\* mutant: a point on the edge of a grid that is no substrate is reported
_adjustOverageClassII_EdgeAlways(fijk, t, pentLeading4, substrate) ==
    IF Sum(fijk.coord) = t.maxDim * (IF substrate THEN 3 ELSE 1)
    THEN [fijk |-> fijk, overage |-> FACE_EDGE]
    ELSE [fijk |-> fijk, overage |-> NO_OVERAGE]

\* t.maxDim is maxDimByCIIres[res], t.unitScale is unitScaleByCIIres[res],
\* t.neighbors is faceNeighbors[fijk->face]
_adjustOverageClassII(fijk, t, pentLeading4, substrate) ==
    LET ijk == fijk.coord
        maxDim == IF substrate THEN t.maxDim * 3 ELSE t.maxDim
        unitScale == IF substrate THEN t.unitScale * 3 ELSE t.unitScale
    IN IF substrate /\ Sum(ijk) = maxDim
       THEN [fijk |-> fijk, overage |-> FACE_EDGE]
       ELSE IF Sum(ijk) > maxDim
       THEN LET fijkOrient == t.neighbors[OverageQuadrant(ijk)]
                origin == Ijk(maxDim, 0, 0)
                tmp == _ijkRotate60cw(Ijk(ijk.i - origin.i, ijk.j - origin.j,
                                          ijk.k - origin.k))
                adjusted == IF OverageQuadrant(ijk) = "KI" /\ pentLeading4
                            THEN _ijkAdd(tmp, origin) ELSE ijk
                moved == IjkNormalized(
                            _ijkAdd(RotateCcwTimes(adjusted, fijkOrient.ccwRot60),
                                    _ijkScale(fijkOrient.translate, unitScale)))
            IN [fijk |-> [face |-> fijkOrient.face, coord |-> moved],
                overage |-> IF substrate /\ Sum(moved) = maxDim
                            THEN FACE_EDGE ELSE NEW_FACE]
       ELSE [fijk |-> fijk, overage |-> NO_OVERAGE]

OverCoords ==
    { c \in [i : 0..MaxOverCoord, j : 0..MaxOverCoord, k : 0..MaxOverCoord] :
        c.i = 0 \/ c.j = 0 \/ c.k = 0 }

\* entries of the tables for resolution 0 and for a face and its neighbours
OverageTables ==
    { [maxDim |-> 2, unitScale |-> 1,
       neighbors |-> [q \in {"IJ", "KI", "JK"} |->
          CASE q = "IJ" -> [face |-> 4, translate |-> Ijk(2, 0, 2), ccwRot60 |-> 1]
            [] q = "KI" -> [face |-> 1, translate |-> Ijk(2, 2, 0), ccwRot60 |-> 5]
            [] q = "JK" -> [face |-> 5, translate |-> Ijk(0, 2, 2), ccwRot60 |-> 3]]],
      [maxDim |-> 2, unitScale |-> 1,
       neighbors |-> [q \in {"IJ", "KI", "JK"} |->
          CASE q = "IJ" -> [face |-> 6, translate |-> Ijk(0, 0, 0), ccwRot60 |-> 0]
            [] q = "KI" -> [face |-> 7, translate |-> Ijk(0, 2, 0), ccwRot60 |-> 2]
            [] q = "JK" -> [face |-> 8, translate |-> Ijk(1, 0, 0), ccwRot60 |-> 4]]] }

InitOverage ==
    /\ pc = "call"
    /\ \E c \in OverCoords, t \in OverageTables, p \in BOOLEAN, s \in BOOLEAN,
          op \in {"_adjustOverageClassII", "_adjustPentVertOverage"} :
         arg = [op |-> op, fijk |-> [face |-> 0, coord |-> c], t |-> t,
                pentLeading4 |-> IF op = "_adjustPentVertOverage" THEN FALSE ELSE p,
                substrate |-> IF op = "_adjustPentVertOverage" THEN TRUE ELSE s]
    /\ out = [fijk |-> arg.fijk, before |-> arg.fijk, overage |-> NO_OVERAGE,
              calls |-> 0]
    /\ CompactIdle

CallAdjustOverageClassII ==
    /\ pc = "call"
    /\ arg.op = "_adjustOverageClassII"
    /\ LET r == _adjustOverageClassII(out.fijk, arg.t, arg.pentLeading4,
                                      arg.substrate)
       IN out' = [fijk |-> r.fijk, before |-> out.fijk, overage |-> r.overage,
                  calls |-> 1]
    /\ pc' = "done"
    /\ UNCHANGED <<arg, CompactVars>>

\* do { overage = _adjustOverageClassII(fijk, res, 0, 1); } one pass; the
\* faces reached all share the table entries of the call
PentVertIterate ==
    /\ pc = "call"
    /\ arg.op = "_adjustPentVertOverage"
    /\ out.calls < MaxAdjust
    /\ LET r == _adjustOverageClassII(out.fijk, arg.t, FALSE, TRUE)
       IN /\ out' = [fijk |-> r.fijk, before |-> out.fijk, overage |-> r.overage,
                     calls |-> out.calls + 1]
          /\ pc' = IF r.overage = NEW_FACE THEN "call" ELSE "done"
    /\ UNCHANGED <<arg, CompactVars>>

NextOverage == CallAdjustOverageClassII \/ PentVertIterate

SpecOverage == InitOverage /\ [][NextOverage]_vars

OverageCalled ==
    arg.op \in {"_adjustOverageClassII", "_adjustPentVertOverage"} /\ out.calls > 0

OverageMaxDim == IF arg.substrate THEN 3 * arg.t.maxDim ELSE arg.t.maxDim

\* C27: a call changes the face or the coordinate only if the coordinate
\* it is given has i+j+k > maxDim; it returns NO_OVERAGE exactly when
\* i+j+k < maxDim, or i+j+k = maxDim on a grid that is no substrate; it
\* never returns FACE_EDGE on such a grid; when it returns FACE_EDGE the
\* resulting coordinate has i+j+k = maxDim; and when the given coordinate
\* has i+j+k > maxDim the face becomes the JK neighbour for k > 0 and
\* j > 0, the KI neighbour for k > 0 and j = 0, the IJ neighbour for k = 0.
C27_Overage ==
    OverageCalled =>
        LET given == out.before.coord
        IN /\ out.fijk # out.before => Sum(given) > OverageMaxDim
           /\ out.overage = NO_OVERAGE <=>
                (Sum(given) < OverageMaxDim
                   \/ (Sum(given) = OverageMaxDim /\ ~arg.substrate))
           /\ ~arg.substrate => out.overage # FACE_EDGE
           /\ out.overage = FACE_EDGE => Sum(out.fijk.coord) = OverageMaxDim
           /\ out.overage \in {NO_OVERAGE, FACE_EDGE, NEW_FACE}
           /\ Sum(given) > OverageMaxDim =>
                out.fijk.face =
                   IF given.k > 0 /\ given.j > 0 THEN arg.t.neighbors["JK"].face
                   ELSE IF given.k > 0 /\ given.j = 0
                        THEN arg.t.neighbors["KI"].face
                   ELSE arg.t.neighbors["IJ"].face

\* an overage across KI on a substrate grid that ends on an edge
C27_Witness ==
    /\ OverageCalled
    /\ arg.substrate
    /\ Sum(out.before.coord) > OverageMaxDim
    /\ out.before.coord.k > 0
    /\ out.before.coord.j = 0
    /\ out.overage = FACE_EDGE
    /\ out.fijk.face = arg.t.neighbors["KI"].face

-----------------------------------------------------------------------------
(* compact on arrays whose cells may carry reserved bits: the complete      *)
(* family of a root's first child, some of its cells given a reserved       *)
(* field or replaced by H3_NULL.  compact takes any H3Index array and       *)
(* validates none of its cells.                                             *)

MaxTagged == 2

RawFamily(root) == Kids(Kids(root)[1])

TaggedSets(root) ==
    { T \in SUBSET (1..Len(RawFamily(root))) :
        Cardinality(T) <= MaxTagged \/ T = 1..Len(RawFamily(root)) }

RawInput(a) ==
    ToArray([k \in 1..Len(RawFamily(a.root)) |->
               IF k \in a.tagged
               THEN IF a.null THEN H3_NULL
                    ELSE [RawFamily(a.root)[k] EXCEPT !.rsv = a.rsv]
               ELSE RawFamily(a.root)[k]])

RawArgs ==
    UNION { [op : {"compact"}, kind : {"raw"}, root : {root}, null : {FALSE},
             tagged : TaggedSets(root), rsv : 0..7] : root \in CompactRoots }
    \cup
    UNION { [op : {"compact"}, kind : {"raw"}, root : {root}, null : {TRUE},
             tagged : TaggedSets(root), rsv : {0}] : root \in CompactRoots }

InitCompactRaw ==
    /\ pc = "start"
    /\ arg \in RawArgs
    /\ out = NoBuf
    /\ h3Set = RawInput(arg)
    /\ remainingHexes = EmptyArray
    /\ hashSetArray = EmptyArray
    /\ compactableHexes = NoBuf
    /\ compactedSet = NewBuf(Cardinality(DOMAIN h3Set), H3_NULL)
    /\ compactedSetOffset = 0
    /\ numRemainingHexes = 0
    /\ ret = 0

SpecCompactRaw == InitCompactRaw /\ [][NextCompact]_vars

ZeroReserved == \A i \in DOMAIN h3Set : H3_GET_RESERVED_BITS(h3Set[i]) = 0

InRound == arg.op = "compact" /\ pc \in {"hash", "count", "emit"}

CompactableFits ==
    compactableHexes.written \subseteq DOMAIN compactableHexes.mem

\* C28: compact never returns COMPACT_LOOP_EXCEEDED: the insertion probe
\* and the lookup probe of every round find the parent's slot or an empty
\* slot within numRemainingHexes steps, whatever the input array.
C28_NoLoopExceeded ==
    arg.op = "compact" => ret # COMPACT_LOOP_EXCEEDED

\* what the code does: the probes succeed when no cell of the input carries
\* reserved bits
C28_ZeroReservedProbes ==
    arg.op = "compact" /\ ZeroReserved => ret # COMPACT_LOOP_EXCEEDED

\* COMPACT_LOOP_EXCEEDED is returned with no write outside a buffer before
C28_Witness ==
    /\ arg.op = "compact"
    /\ pc = "done"
    /\ ret = COMPACT_LOOP_EXCEEDED
    /\ ~ZeroReserved
    /\ CompactableFits

\* C29: in every round the number of compactable parents found is at most
\* numRemainingHexes / 6, the size of compactableHexes; the counter kept in
\* a parent's reserved field never exceeds 6; and the cells written to
\* compactedSet stay within its numHexes slots: no write goes outside a
\* buffer.
C29_NoOverflow ==
    arg.op = "compact" =>
        /\ pc = "emit" => CompactableCount <= numRemainingHexes \div 6
        /\ CompactableFits
        /\ \A i \in DOMAIN hashSetArray :
              H3_GET_RESERVED_BITS(hashSetArray[i]) <= 6
        /\ compactedSet.written \subseteq DOMAIN compactedSet.mem
        /\ Cardinality(compactedSet.written) <= NumHexes

\* what the code does: the buffers are respected when no cell of the input
\* carries reserved bits
C29_ZeroReservedFits ==
    ZeroReserved => C29_NoOverflow

\* more parents are written than compactableHexes has slots
C29_Witness ==
    /\ arg.op = "compact"
    /\ pc = "emit"
    /\ ~ZeroReserved
    /\ CompactableCount > numRemainingHexes \div 6
    /\ ~CompactableFits

SharedResolution ==
    \A i \in 0..(numRemainingHexes - 1) :
        remainingHexes[i] # H3_NULL =>
            H3_GET_RESOLUTION(remainingHexes[i])
                = H3_GET_RESOLUTION(remainingHexes[0])

\* C30: compact terminates on every input of one resolution: in each
\* round the remaining cells share one resolution, the cells kept for the
\* next round are one resolution coarser and at most a sixth of the
\* remaining ones, and the call is not cut short.
C30_Rounds ==
    arg.op = "compact" =>
        /\ InRound => SharedResolution
        /\ pc = "emit" =>
              /\ CompactableCount <= numRemainingHexes \div 6
              /\ \A i \in DOMAIN compactableHexes.mem :
                    i < CompactableCount =>
                       H3_GET_RESOLUTION(compactableHexes.mem[i]) = ParentRes
        /\ pc # "crashed"
        /\ InRound =>
              H3_GET_RESOLUTION(remainingHexes[0])
                 <= H3_GET_RESOLUTION(h3Set[0])

\* what the code does when no cell of the input carries reserved bits
C30_ZeroReservedRounds ==
    ZeroReserved => C30_Rounds

\* a round moves to cells exactly one resolution coarser
C30_OneCoarser ==
    [][arg.op = "compact" /\ ZeroReserved /\ pc = "emit" /\ pc' = "hash" =>
          H3_GET_RESOLUTION(remainingHexes'[0])
             = H3_GET_RESOLUTION(remainingHexes[0]) - 1]_vars

\* a round of an input of one resolution keeps as many cells as it was given
C30_Witness ==
    /\ arg.op = "compact"
    /\ pc = "emit"
    /\ ~ZeroReserved
    /\ SharedResolution
    /\ numRemainingHexes >= 6
    /\ CompactableCount = numRemainingHexes

====
